---- MODULE Spec2Model ----
(***************************************************************************)
(* A model of the axolotl bytecode compiler and virtual machine:           *)
(* Scanner (src/include/Debug.hpp, second half), Chunk                     *)
(* (src/include/Chunk.hpp), Compiler (src/include/Compiler.hpp), Vm        *)
(* (src/include/Vm.hpp) and Value (src/include/Value.hpp).                 *)
(*                                                                         *)
(* The recursive-descent compiler is modelled as a state machine with an   *)
(* explicit call stack (frames): every action runs one parser function     *)
(* from a call or a return point up to its next call.  The VM executes one *)
(* instruction per step.                                                   *)
(***************************************************************************)
EXTENDS Integers, Sequences, FiniteSets, TLC

(***************************************************************************)
(* Characters.  A source is a string; source[i] is modelled by CharAt,     *)
(* which yields the terminating NUL for i = size (is_at_end tests for it). *)
(***************************************************************************)
NUL == "NUL"

CharAt(src, i) == IF i < Len(src) THEN SubSeq(src, i + 1, i + 1) ELSE NUL

is_alpha(c) ==
  \/ c \in {"a", "b", "c", "d", "e", "f", "g", "h", "i", "j", "k", "l", "m",
             "n", "o", "p", "q", "r", "s", "t", "u", "v", "w", "x", "y", "z"}
  \/ c \in {"A", "B", "C", "D", "E", "F", "G", "H", "I", "J", "K", "L", "M",
             "N", "O", "P", "Q", "R", "S", "T", "U", "V", "W", "X", "Y", "Z"}
  \/ c = "_"

Digits == <<"0", "1", "2", "3", "4", "5", "6", "7", "8", "9">>

isdigit(c) == \E k \in 1..10 : Digits[k] = c

DigitVal(c) == (CHOOSE k \in 1..10 : Digits[k] = c) - 1

(***************************************************************************)
(* TokenType, in declaration order: the ordinal indexes the rule table.    *)
(***************************************************************************)
TokenType ==
  << "LEFT_PAREN", "RIGHT_PAREN", "LEFT_BRACE", "RIGHT_BRACE", "COMMA", "DOT",
     "MINUS", "PLUS", "SEMICOLON", "SLASH", "STAR",
     "BANG", "BANG_EQUAL", "EQUAL", "EQUAL_EQUAL", "GREATER", "GREATER_EQUAL",
     "LESS", "LESS_EQUAL",
     "IDENTIFIER", "STRING", "NUMBER",
     "AND", "CLASS", "ELSE", "FALSE", "FOR", "FUN", "IF", "NIL", "OR", "PRINT",
     "RETURN", "SUPER", "THIS", "TRUE", "VAR", "WHILE",
     "ERROR", "Eof" >>

Ordinal(type) == (CHOOSE k \in 1..Len(TokenType) : TokenType[k] = type) - 1

Token(type, lexme, line) == [type |-> type, lexme |-> lexme, line |-> line]

\* Token{ TokenType::Eof }: empty lexeme, line = 0 (the member initialiser).
EofToken == Token("Eof", "", 0)

(***************************************************************************)
(* Scanner.  sc = [start, current, line].                                  *)
(***************************************************************************)
is_at_end(src, sc) == CharAt(src, sc.current) = NUL

peek(src, sc) == CharAt(src, sc.current)

peek_next(src, sc) ==
  IF is_at_end(src, sc) THEN NUL ELSE CharAt(src, sc.current + 1)

sc_advance(sc) == [sc EXCEPT !.current = @ + 1]

make_token(src, sc, type) ==
  Token(type, SubSeq(src, sc.start + 1, sc.current), sc.line)

error_token(sc, message) == Token("ERROR", message, sc.line)

RECURSIVE skip_comment(_, _)
skip_comment(src, sc) ==
  IF peek(src, sc) # "\n" /\ ~is_at_end(src, sc)
  THEN skip_comment(src, sc_advance(sc))
  ELSE sc

RECURSIVE skip_white_space(_, _)
skip_white_space(src, sc) ==
  LET c == peek(src, sc) IN
  IF c \in {" ", "\r", "\t"} THEN skip_white_space(src, sc_advance(sc))
  ELSE IF c = "\n"
    THEN skip_white_space(src, sc_advance([sc EXCEPT !.line = @ + 1]))
  ELSE IF c = "/"
    THEN IF peek_next(src, sc) = "/"
         THEN skip_white_space(src, skip_comment(src, sc))
         ELSE sc
  ELSE sc

RECURSIVE string_body(_, _)
string_body(src, sc) ==
  IF peek(src, sc) # "\"" /\ ~is_at_end(src, sc)
  THEN string_body(src,
         sc_advance(IF peek(src, sc) = "\n"
                    THEN [sc EXCEPT !.line = @ + 1] ELSE sc))
  ELSE sc

\* Scanner::string: [tok, sc]
scan_string(src, sc0) ==
  LET string_end(sc) ==
        IF is_at_end(src, sc)
        THEN [tok |-> error_token(sc, "Unterminated string."), sc |-> sc]
        ELSE [tok |-> make_token(src, sc_advance(sc), "STRING"),
              sc |-> sc_advance(sc)]
  IN string_end(string_body(src, sc0))

RECURSIVE skip_digits(_, _)
skip_digits(src, sc) ==
  IF isdigit(peek(src, sc)) THEN skip_digits(src, sc_advance(sc)) ELSE sc

token_at(src, sc, type) == [tok |-> make_token(src, sc, type), sc |-> sc]

\* Scanner::number: [tok, sc]
scan_number(src, sc0) ==
  LET fraction(sc) ==
        skip_digits(src, IF peek(src, sc) = "." /\ isdigit(peek_next(src, sc))
                         THEN sc_advance(sc) ELSE sc)
  IN token_at(src, fraction(skip_digits(src, sc0)), "NUMBER")

\* Scanner::check_keyword: both of its branches return `type`.  (`expected`
\* may reach beyond the source, where the model reads nothing.)
check_keyword(src, sc, beg, rest, type) ==
  IF sc.current - sc.start = sc.start + Len(rest)
     /\ sc.start + beg + Len(rest) <= Len(src)
     /\ rest = SubSeq(src, sc.start + beg + 1, sc.start + beg + Len(rest))
  THEN type
  ELSE type

\* Scanner::identifier_type, with c0 = source[start] and c1 = source[start + 1]
identifier_type(src, sc, c0, c1) ==
  CASE c0 = "a" -> check_keyword(src, sc, 1, "nd", "AND")
    [] c0 = "c" -> check_keyword(src, sc, 1, "lass", "CLASS")
    [] c0 = "e" -> check_keyword(src, sc, 1, "lse", "ELSE")
    [] c0 = "f" /\ sc.current - sc.start > 1 /\ c1 = "a" ->
         check_keyword(src, sc, 2, "lse", "FALSE")
    [] c0 = "f" /\ sc.current - sc.start > 1 /\ c1 = "o" ->
         check_keyword(src, sc, 2, "r", "FOR")
    [] c0 = "f" /\ sc.current - sc.start > 1 /\ c1 = "u" ->
         check_keyword(src, sc, 2, "n", "FUN")
    [] c0 = "i" -> check_keyword(src, sc, 1, "f", "IF")
    [] c0 = "n" -> check_keyword(src, sc, 1, "il", "NIL")
    [] c0 = "o" -> check_keyword(src, sc, 1, "r", "OR")
    [] c0 = "p" -> check_keyword(src, sc, 1, "rint", "PRINT")
    [] c0 = "r" -> check_keyword(src, sc, 1, "eturn", "RETURN")
    [] c0 = "s" -> check_keyword(src, sc, 1, "uper", "SUPER")
    [] c0 = "t" /\ sc.current - sc.start > 1 /\ c1 = "h" ->
         check_keyword(src, sc, 2, "is", "THIS")
    [] c0 = "t" /\ sc.current - sc.start > 1 /\ c1 = "r" ->
         check_keyword(src, sc, 2, "ue", "TRUE")
    [] c0 = "v" -> check_keyword(src, sc, 1, "ar", "VAR")
    [] c0 = "w" -> check_keyword(src, sc, 1, "hile", "WHILE")
    [] OTHER -> "IDENTIFIER"

RECURSIVE skip_ident(_, _)
skip_ident(src, sc) ==
  IF is_alpha(peek(src, sc)) \/ isdigit(peek(src, sc))
  THEN skip_ident(src, sc_advance(sc))
  ELSE sc

\* Scanner::identifier: [tok, sc]
scan_identifier(src, sc0) ==
  LET typed(sc) ==
        token_at(src, sc, identifier_type(src, sc, CharAt(src, sc.start),
                                          CharAt(src, sc.start + 1)))
  IN typed(skip_ident(src, sc0))

\* Scanner::match
sc_match(src, sc, expected) ==
  ~is_at_end(src, sc) /\ CharAt(src, sc.current) = expected

\* make_token(match(second) ? long : short)
two_char(src, sc, second, long, short) ==
  IF sc_match(src, sc, second)
  THEN token_at(src, sc_advance(sc), long)
  ELSE token_at(src, sc, short)

Single ==
  [c \in {"(", ")", "{", "}", ";", ",", ".", "-", "+", "/", "*"} |->
     CASE c = "(" -> "LEFT_PAREN"  [] c = ")" -> "RIGHT_PAREN"
       [] c = "{" -> "LEFT_BRACE"  [] c = "}" -> "RIGHT_BRACE"
       [] c = ";" -> "SEMICOLON"   [] c = "," -> "COMMA"
       [] c = "." -> "DOT"         [] c = "-" -> "MINUS"
       [] c = "+" -> "PLUS"        [] c = "/" -> "SLASH"
       [] c = "*" -> "STAR"]

\* Scanner::scan_token after `c = advance()`
scan_char(src, c, sc) ==
  IF is_alpha(c) THEN scan_identifier(src, sc)
  ELSE IF isdigit(c) THEN scan_number(src, sc)
  ELSE IF c \in DOMAIN Single THEN token_at(src, sc, Single[c])
  ELSE IF c = "!" THEN two_char(src, sc, "=", "BANG_EQUAL", "BANG")
  ELSE IF c = "=" THEN two_char(src, sc, "=", "EQUAL_EQUAL", "EQUAL")
  ELSE IF c = "<" THEN two_char(src, sc, "=", "LESS_EQUAL", "LESS")
  ELSE IF c = ">" THEN two_char(src, sc, "=", "GREATER_EQUAL", "GREATER")
  ELSE IF c = "\"" THEN scan_string(src, sc)
  ELSE [tok |-> error_token(sc, "Unexpected character."), sc |-> sc]

\* a faulty variant of Scanner::scan_token, which moves on at the end of the
\* source
scan_token_past(src, sc0) ==
  LET started(sc) ==
        IF is_at_end(src, sc) THEN [tok |-> EofToken, sc |-> sc_advance(sc)]
        ELSE scan_char(src, CharAt(src, sc.current), sc_advance(sc))
      marked(sc) == started([sc EXCEPT !.start = sc.current])
  IN marked(skip_white_space(src, sc0))

\* Scanner::scan_token: [tok, sc]
scan_token(src, sc0) ==
  LET started(sc) ==
        IF is_at_end(src, sc) THEN [tok |-> EofToken, sc |-> sc]
        ELSE scan_char(src, CharAt(src, sc.current), sc_advance(sc))
      marked(sc) == started([sc EXCEPT !.start = sc.current])
  IN marked(skip_white_space(src, sc0))

(***************************************************************************)
(* Value: std::variant<Boolean, Number, String, Function>.  Every value    *)
(* carries all payload fields so that values of different alternatives can *)
(* be compared.  A Number (double) is kept as an exact fraction n/d in     *)
(* lowest terms, d > 0; no Function value is ever constructed.             *)
(***************************************************************************)
RECURSIVE Gcd(_, _)
Gcd(a, b) == IF b = 0 THEN a ELSE Gcd(b, a % b)

Abs(x) == IF x < 0 THEN -x ELSE x

MakeBoolean(b) == [t |-> "Boolean", b |-> b, n |-> 0, d |-> 1, s |-> ""]

MakeNumber(n, d) ==
  LET g == Gcd(Abs(n), d)
  IN [t |-> "Number", b |-> FALSE, n |-> n \div g, d |-> d \div g, s |-> ""]

MakeString(s) == [t |-> "String", b |-> FALSE, n |-> 0, d |-> 1, s |-> s]

\* values::is<T>
is(T, value) == value.t = T

(***************************************************************************)
(* OpCode, in declaration order (Chunk.hpp): the ordinal is the byte.      *)
(***************************************************************************)
OpCode ==
  << "Constant", "Nil", "True", "False", "Pop", "GetLocal", "Setlocal",
     "GetGlobal", "DefineGlobal", "SetGlobal", "Equal", "Greater", "Less",
     "Add", "Subtract", "Mutliply", "Divide", "Not", "Negate", "Print",
     "Jump", "JumpIfFalse", "Loop", "Return" >>

Op(name) == (CHOOSE k \in 1..Len(OpCode) : OpCode[k] = name) - 1

\* static_cast<std::byte>(x)
ToByte(x) == x % 256

(***************************************************************************)
(* Chunk: data (code bytes), constants, lines.                             *)
(***************************************************************************)
EmptyChunk == [data |-> <<>>, constants |-> <<>>, lines |-> <<>>]

\* a faulty variant of Chunk::write, without its lines.push_back
write_without_line(ch, byte, line) == [ch EXCEPT !.data = Append(@, byte)]

\* Chunk::write
ChunkWrite(ch, byte, line) ==
  [ch EXCEPT !.data = Append(@, ToByte(byte)), !.lines = Append(@, line)]

\* Chunk::add_constant: [ch, v] with v the index of the new constant
ChunkAddConstant(ch, value) ==
  [ch |-> [ch EXCEPT !.constants = Append(@, value)],
   v  |-> Len(ch.constants)]

\* Chunk::set (index is zero-based and below size())
ChunkSet(ch, index, value) ==
  [ch EXCEPT !.data[index + 1] = ToByte(value)]

\* Chunk::size
ChunkSize(ch) == Len(ch.data)

(***************************************************************************)
(* Precedence, in declaration order, and the parse-rule table, indexed by  *)
(* the token type's ordinal ("" is nullptr).                               *)
(***************************************************************************)
Precedence ==
  << "NONE", "ASSIGNMENT", "OR", "AND", "EQUALITY", "COMPARISON", "TERM",
     "FACTOR", "UNARY", "CALL", "PRIMARY" >>

Prec(name) == (CHOOSE k \in 1..Len(Precedence) : Precedence[k] = name) - 1

Rule(prefix, infix, precedence) ==
  [prefix |-> prefix, infix |-> infix, precedence |-> Prec(precedence)]

rules ==
  << Rule("grouping", "", "NONE"),
     Rule("", "", "NONE"),
     Rule("", "", "NONE"),
     Rule("", "", "NONE"),
     Rule("", "", "NONE"),
     Rule("", "", "NONE"),
     Rule("unary", "binary", "TERM"),
     Rule("", "binary", "TERM"),
     Rule("", "", "NONE"),
     Rule("", "binary", "FACTOR"),
     Rule("", "binary", "FACTOR"),
     Rule("unary", "", "NONE"),
     Rule("", "binary", "EQUALITY"),
     Rule("", "binary", "NONE"),
     Rule("", "binary", "EQUALITY"),
     Rule("", "binary", "COMPARISON"),
     Rule("", "binary", "COMPARISON"),
     Rule("", "binary", "COMPARISON"),
     Rule("", "", "NONE"),
     Rule("variable", "", "NONE"),
     Rule("string", "", "NONE"),
     Rule("number", "", "NONE"),
     Rule("", "and_", "AND"),
     Rule("", "", "NONE"),
     Rule("", "", "NONE"),
     Rule("literal", "", "NONE"),
     Rule("", "", "NONE"),
     Rule("", "", "NONE"),
     Rule("", "", "NONE"),
     Rule("literal", "", "NONE"),
     Rule("", "or_", "OR"),
     Rule("", "", "NONE"),
     Rule("", "", "NONE"),
     Rule("", "", "NONE"),
     Rule("", "", "NONE"),
     Rule("literal", "", "NONE"),
     Rule("", "", "NONE"),
     Rule("", "", "NONE"),
     Rule("", "", "NONE"),
     Rule("", "", "NONE") >>

get_rule(type) == rules[Ordinal(type) + 1]

(***************************************************************************)
(* CompilerState: locals[0 .. local_count-1] is the sequence `locals`      *)
(* (entries of the array at and above local_count are never read).         *)
(***************************************************************************)
Local(token, depth) == [token |-> token, depth |-> depth]

CompilerStateInit == [locals |-> <<>>, scope_depth |-> 0]

local_count(st) == Len(st.locals)

\* locals.size(): std::array<Local, uint8_t max + 1>
LocalsSize == 256

\* a faulty variant of CompilerState::add_local, without its test of
\* local_count
add_local_unbounded(st, token) ==
  [st |-> [st EXCEPT !.locals = Append(@, Local(token, -1))], v |-> TRUE]

\* CompilerState::add_local: [st, v] with v the bool it returns
cs_add_local(st, token) ==
  IF local_count(st) = LocalsSize - 1
  THEN [st |-> st, v |-> FALSE]
  ELSE [st |-> [st EXCEPT !.locals = Append(@, Local(token, -1))], v |-> TRUE]

\* CompilerState::find, the loop from index i (zero-based) downwards
RECURSIVE find_from(_, _, _)
find_from(st, token, i) ==
  IF i < 0 THEN -1
  ELSE LET local == st.locals[i + 1] IN
       IF local.depth # -1 /\ local.depth < st.scope_depth THEN -1
       ELSE IF token.lexme = local.token.lexme
            THEN (IF local.depth = -1 THEN -2 ELSE i)
            ELSE find_from(st, token, i - 1)

\* CompilerState::find
find(st, token) ==
  IF local_count(st) = 0 THEN -1 ELSE find_from(st, token, local_count(st) - 1)

\* CompilerState::set_local_depth
set_local_depth(st, index, depth) ==
  IF index + 1 \in DOMAIN st.locals
  THEN [st EXCEPT !.locals[index + 1].depth = depth]
  ELSE st

(***************************************************************************)
(* The compiler's members as one record s = [scanner, parser, chunk,       *)
(* state, cout, ...], on which the member functions operate.  cout is the  *)
(* sequence of diagnostic lines written.  Three fields are history, which  *)
(* the code does not keep:                                                 *)
(*   panic_errors  the calls of error_at since compile() or synchronize()  *)
(*                 last cleared panic_mode                                 *)
(*   panic_diags   those of them that wrote a diagnostic                   *)
(*   expr_stmts    [start, end) of the code of each expression statement   *)
(*   while_stmts   the offsets of the code of each while statement         *)
(***************************************************************************)
ParserInit ==
  [previous |-> EofToken, current |-> EofToken,
   had_error |-> FALSE, panic_mode |-> FALSE]

\* a faulty variant of Compiler::error_at, without its test of panic_mode
error_at_in_panic(s, token, message) ==
  [s EXCEPT !.parser.panic_mode = TRUE,
            !.cout = Append(@, " Error: " \o message),
            !.panic_errors = @ + 1,
            !.panic_diags = @ + 1,
            !.parser.had_error = TRUE]

\* Compiler::error_at
error_at(s, token, message) ==
  IF s.parser.panic_mode THEN [s EXCEPT !.panic_errors = @ + 1]
  ELSE LET where == IF token.type = "Eof" THEN " at end"
                    ELSE IF token.type = "ERROR" THEN ""
                    ELSE " at '" \o token.lexme \o "'"
       IN [s EXCEPT !.parser.panic_mode = TRUE,
                    !.cout = Append(@, " Error" \o where \o ": " \o message),
                    !.panic_errors = @ + 1,
                    !.panic_diags = @ + 1,
                    !.parser.had_error = TRUE]

\* Compiler::error_at_current (it passes parser.previous)
error_at_current(s, message) == error_at(s, s.parser.previous, message)

\* Compiler::error
error(s, message) == error_at(s, s.parser.previous, message)

\* the for (;;) loop of Compiler::advance, r being what scan_token returned
RECURSIVE advance_loop(_)
advance_loop(s) ==
  LET scanned(r) ==
        IF r.tok.type # "ERROR"
        THEN [s EXCEPT !.scanner.start = r.sc.start,
                       !.scanner.current = r.sc.current,
                       !.scanner.line = r.sc.line,
                       !.parser.current = r.tok]
        ELSE advance_loop(
               error_at_current([s EXCEPT !.scanner.start = r.sc.start,
                                          !.scanner.current = r.sc.current,
                                          !.scanner.line = r.sc.line,
                                          !.parser.current = r.tok],
                                r.tok.lexme))
  IN scanned(scan_token(s.scanner.source,
                        [start |-> s.scanner.start,
                         current |-> s.scanner.current,
                         line |-> s.scanner.line]))

\* Compiler::advance
advance(s) == advance_loop([s EXCEPT !.parser.previous = s.parser.current])

\* Compiler::check
check(s, type) == s.parser.current.type = type

\* Compiler::consume
consume(s, type, message) ==
  IF check(s, type) THEN advance(s) ELSE error_at_current(s, message)

\* Compiler::match: the state after the call; the value it returns is check(s, type)
match(s, type) == IF check(s, type) THEN advance(s) ELSE s

\* Compiler::emit_byte
emit_byte(s, byte) ==
  [s EXCEPT !.chunk = ChunkWrite(@, byte, s.parser.previous.line)]

\* Compiler::emit_bytes with two bytes
emit_bytes(s, b1, b2) == emit_byte(emit_byte(s, b1), b2)

\* Compiler::emit_jump: [s, v] with v the offset of the operand
emit_jump(s, instruction) ==
  LET s1 == emit_byte(emit_byte(emit_byte(s, instruction), 255), 255)
  IN [s |-> s1, v |-> ChunkSize(s1.chunk) - 2]

JumpMax == 65535

\* a faulty variant of Compiler::patch_jump, whose jump is one byte too long
patch_jump_too_far(s, offset) ==
  [s EXCEPT !.chunk =
     ChunkSet(ChunkSet(@, offset, ((ChunkSize(s.chunk) - offset - 1) \div 256) % 256),
              offset + 1, (ChunkSize(s.chunk) - offset - 1) % 256)]

\* Compiler::patch_jump
patch_jump(s, offset) ==
  LET jump == ChunkSize(s.chunk) - offset - 2
      s1 == IF jump > JumpMax THEN error(s, "Too much code to jump over.") ELSE s
  IN [s1 EXCEPT !.chunk =
        ChunkSet(ChunkSet(@, offset, (jump \div 256) % 256), offset + 1, jump % 256)]

\* Compiler::emit_loop
emit_loop(s, loop_start) ==
  LET s1 == emit_byte(s, Op("Loop"))
      offset == ChunkSize(s1.chunk) - loop_start + 2
      s2 == IF offset > JumpMax THEN error(s1, "Loop body too large.") ELSE s1
  IN emit_byte(emit_byte(s2, (offset \div 256) % 256), offset % 256)

ByteMax == 255

\* a faulty variant of Compiler::make_constant, which adds no constant
make_constant_not_added(s, value) == [s |-> s, v |-> Len(s.chunk.constants)]

\* a faulty variant of Compiler::make_constant, without its test of the index
make_constant_unchecked(s, value) ==
  LET r == ChunkAddConstant(s.chunk, value)
  IN [s |-> [s EXCEPT !.chunk = r.ch], v |-> r.v % (ByteMax + 1)]

\* Compiler::make_constant: [s, v]
make_constant(s, value) ==
  LET r == ChunkAddConstant(s.chunk, value)
      s1 == [s EXCEPT !.chunk = r.ch]
  IN IF r.v > ByteMax
     THEN [s |-> error(s1, "Too many constants in one chunk."), v |-> 0]
     ELSE [s |-> s1, v |-> r.v]

\* Compiler::emit_constant
emit_constant(s, value) ==
  LET r == make_constant(s, value)
  IN emit_bytes(r.s, Op("Constant"), r.v)

\* Compiler::identifier_constant: [s, v]
identifier_constant(s, token) == make_constant(s, MakeString(token.lexme))

\* Compiler::add_local
add_local(s, token) ==
  LET r == cs_add_local(s.state, token)
      s1 == [s EXCEPT !.state = r.st]
  IN IF ~r.v THEN error(s1, "Too many local variables in function.") ELSE s1

\* a faulty variant of Compiler::declare_variable, without its call of find
declare_variable_unchecked(s) ==
  IF s.state.scope_depth = 0 THEN s ELSE add_local(s, s.parser.previous)

\* Compiler::declare_variable
declare_variable(s) ==
  IF s.state.scope_depth = 0 THEN s
  ELSE LET s1 == IF find(s.state, s.parser.previous) # -1
                 THEN error(s, "Already a variable with this name in this scope.")
                 ELSE s
       IN add_local(s1, s.parser.previous)

\* Compiler::parse_variable: [s, v]
parse_variable(s, error_message) ==
  LET declared(s1) ==
        IF s1.state.scope_depth > 0 THEN [s |-> s1, v |-> 0]
        ELSE identifier_constant(s1, s1.parser.previous)
  IN declared(declare_variable(consume(s, "IDENTIFIER", error_message)))

\* Compiler::mark_initialized
mark_initialized(s) ==
  [s EXCEPT !.state =
     set_local_depth(@, local_count(s.state) - 1, s.state.scope_depth)]

\* Compiler::define_variable
define_variable(s, global) ==
  IF s.state.scope_depth > 0 THEN mark_initialized(s)
  ELSE emit_bytes(s, Op("DefineGlobal"), global)

\* a faulty variant of Compiler::resolve_local, which reports nothing
resolve_local_silent(s, token) == [s |-> s, v |-> find(s.state, token)]

\* Compiler::resolve_local: [s, v]
resolve_local(s, token) ==
  LET found == find(s.state, token)
  IN [s |-> IF found = -2
            THEN error(s, "Can't read local variable in its own initializer.")
            ELSE s,
      v |-> found]

SyncTypes ==
  {"CLASS", "FUN", "VAR", "FOR", "IF", "WHILE", "PRINT", "RETURN"}

\* the while loop of Compiler::synchronize
RECURSIVE synchronize_loop(_)
synchronize_loop(s) ==
  IF s.parser.current.type = "Eof" THEN s
  ELSE IF s.parser.previous.type = "SEMICOLON" THEN s
  ELSE IF s.parser.current.type \in SyncTypes THEN s
  ELSE synchronize_loop(advance(s))

\* Compiler::synchronize
synchronize(s) ==
  synchronize_loop([s EXCEPT !.parser.panic_mode = FALSE,
                             !.panic_errors = 0, !.panic_diags = 0])

\* `depth > scope_depth` in clean_scope compares an int with a std::size_t:
\* the int is converted, so that depth -1 is the largest std::size_t.
int_gt_size_t(depth, size) == depth < 0 \/ depth > size

\* CompilerState::clean_scope with func = emit_byte(OpCode::Pop)
RECURSIVE clean_scope(_)
clean_scope(s) ==
  IF local_count(s.state) > 0
     /\ int_gt_size_t(s.state.locals[local_count(s.state)].depth, s.state.scope_depth)
  THEN clean_scope([emit_byte(s, Op("Pop")) EXCEPT
                      !.state.locals = SubSeq(@, 1, Len(@) - 1)])
  ELSE s

\* Compiler::begin_scope
begin_scope(s) == [s EXCEPT !.state.scope_depth = @ + 1]

\* a faulty variant of Compiler::end_scope, which leaves the locals of the
\* scope where they are
end_scope_keep(s) == [s EXCEPT !.state.scope_depth = @ - 1]

\* Compiler::end_scope
end_scope(s) == clean_scope([s EXCEPT !.state.scope_depth = @ - 1])

\* the digits of std::from_chars, from character i of the lexeme on
RECURSIVE from_chars(_, _, _, _, _)
from_chars(lexme, i, n, d, frac) ==
  IF i > Len(lexme) THEN MakeNumber(n, d)
  ELSE LET c == SubSeq(lexme, i, i) IN
       IF c = "." THEN from_chars(lexme, i + 1, n, d, TRUE)
       ELSE IF ~isdigit(c) THEN MakeNumber(n, d)
       ELSE from_chars(lexme, i + 1, n * 10 + DigitVal(c),
                       IF frac THEN d * 10 ELSE d, frac)

(***************************************************************************)
(* State.                                                                  *)
(*   pending          the sources of the interpret calls still to be made  *)
(*   mode             "idle", "compiling", "compiled", "running", "aborted" *)
(*   scanner, parser, compiling_chunk, current_state   the Compiler        *)
(*   cout             the diagnostics written by the current compile       *)
(*   panic_errors, panic_diags, expr_stmts, while_stmts                    *)
(*                    history of the compile                               *)
(*   frames           the compiler's call stack (the last frame is active) *)
(*   compiled         what compile() returned: [has_value, chunk]          *)
(*   chunk, ip, stack, stack_top, globals   the Vm                         *)
(*   result           what the last interpret call returned                *)
(*   printed          the lines Print wrote                                *)
(*   stmt_entry       history: stack_top when run() last came to the first *)
(*                    byte of each expression or while statement           *)
(***************************************************************************)
VARIABLES pending, mode, scanner, parser, compiling_chunk, current_state,
          cout, panic_errors, panic_diags, expr_stmts, while_stmts, frames,
          compiled,
          chunk, ip, stack, stack_top, globals, result, printed, stmt_entry

compiler_vars == <<scanner, parser, compiling_chunk, current_state,
                   cout, panic_errors, panic_diags, expr_stmts,
                   while_stmts, frames>>

vm_vars == <<chunk, ip, stack, stack_top, globals, result, printed, stmt_entry>>

vars == <<pending, mode, scanner, parser, compiling_chunk, current_state,
          cout, panic_errors, panic_diags, expr_stmts, while_stmts, frames,
          compiled,
          chunk, ip, stack, stack_top, globals, result, printed, stmt_entry>>

\* The compiler's members as one record.
S == [scanner |-> scanner, parser |-> parser, chunk |-> compiling_chunk,
      state |-> current_state, cout |-> cout, panic_errors |-> panic_errors,
      panic_diags |-> panic_diags, expr_stmts |-> expr_stmts,
      while_stmts |-> while_stmts]

\* A frame: a function's entry or return point with its local variables.
Frame(pc, i, j, t, f) == [pc |-> pc, i |-> i, j |-> j, t |-> t, f |-> f]

At(pc) == Frame(pc, 0, 0, "", FALSE)

Top == frames[Len(frames)]

Rest == SubSeq(frames, 1, Len(frames) - 1)

InFrame(pcs) == mode = "compiling" /\ frames # <<>> /\ Top.pc \in pcs

\* The compiler's members become those of s.
Members(s) ==
  /\ scanner' = s.scanner
  /\ parser' = s.parser
  /\ compiling_chunk' = s.chunk
  /\ current_state' = s.state
  /\ cout' = s.cout
  /\ panic_errors' = s.panic_errors
  /\ panic_diags' = s.panic_diags
  /\ expr_stmts' = s.expr_stmts
  /\ while_stmts' = s.while_stmts

\* The compiler goes on in state s with call stack fr.
Commit(s, fr) ==
  /\ Members(s)
  /\ frames' = fr
  /\ UNCHANGED <<pending, mode, compiled>>
  /\ UNCHANGED vm_vars

\* parse_precedence(precedence), called
ParsePrec(precedence) == Frame("parse_precedence", precedence, 0, "", FALSE)

\* expression(), called
Expression == ParsePrec(Prec("ASSIGNMENT"))

NoChunk == [has_value |-> FALSE, chunk |-> EmptyChunk]

(***************************************************************************)
(* Compiler::compile.                                                      *)
(***************************************************************************)
\* Vm::interpret(Compiler&) up to the loop of compile(): the Compiler is
\* constructed on the next source and compile() primes the parser.
Interpret ==
  /\ mode = "idle"
  /\ pending # <<>>
  /\ Members(advance([scanner |-> [source |-> Head(pending), start |-> 0,
                                    current |-> 0, line |-> 0],
                       parser |-> ParserInit,
                       chunk |-> EmptyChunk,
                       state |-> CompilerStateInit,
                       cout |-> <<>>,
                       panic_errors |-> 0,
                       panic_diags |-> 0,
                       expr_stmts |-> {},
                       while_stmts |-> {}]))
  /\ frames' = <<At("compile")>>
  /\ pending' = Tail(pending)
  /\ mode' = "compiling"
  /\ compiled' = NoChunk
  /\ UNCHANGED vm_vars

\* a faulty variant of Compiler::emit_return, which emits nothing
emit_return_nothing(s) == s

\* Compiler::emit_return
emit_return(s) == emit_byte(s, Op("Return"))

\* Compiler::end_compiler (debug::enabled only prints)
end_compiler(s) == emit_return(s)

\* a faulty variant of the return of compile(), without its test of had_error
compile_result_unchecked(s) == [has_value |-> TRUE, chunk |-> s.chunk]

\* what compile() returns from state s
compile_result(s) ==
  IF s.parser.had_error THEN NoChunk
  ELSE [has_value |-> TRUE, chunk |-> s.chunk]

\* the loop of compile(), its end and its return
Compile ==
  /\ InFrame({"compile"})
  /\ IF ~check(S, "Eof")
     THEN Commit(S, Rest \o <<At("compile"), At("declaration")>>)
     ELSE LET returned(s) ==
                /\ Members(s)
                /\ frames' = Rest
                /\ compiled' = compile_result(s)
                /\ mode' = "compiled"
                /\ UNCHANGED pending
                /\ UNCHANGED vm_vars
          IN returned(end_compiler(advance(S)))

\* Compiler::declaration
Declaration ==
  /\ InFrame({"declaration", "declaration_end"})
  /\ IF Top.pc = "declaration"
     THEN LET \* i: where the current token began when declaration was called
              after == Frame("declaration_end", S.scanner.start, 0, "", FALSE)
          IN IF check(S, "VAR")
             THEN Commit(advance(S), Rest \o <<after, At("var_declaration")>>)
             ELSE Commit(S, Rest \o <<after, At("statement")>>)
     ELSE Commit(IF S.parser.panic_mode THEN synchronize(S) ELSE S, Rest)

\* Compiler::var_declaration
VarDeclaration ==
  /\ InFrame({"var_declaration", "var_declaration_end"})
  /\ LET \* from consume on, with global what parse_variable returned
         defined(s, global) ==
           define_variable(
             consume(s, "SEMICOLON", "Expect ';' after variable declaration."),
             global)
         parsed(r) ==
           IF check(r.s, "EQUAL")
           THEN Commit(advance(r.s),
                  Rest \o <<Frame("var_declaration_end", r.v, 0, "", FALSE),
                            Expression>>)
           ELSE Commit(defined(emit_byte(r.s, Op("Nil")), r.v), Rest)
     IN IF Top.pc = "var_declaration"
        THEN parsed(parse_variable(S, "Expect variable name."))
        ELSE Commit(defined(S, Top.i), Rest)

\* Compiler::statement
Statement ==
  /\ InFrame({"statement", "statement_end_scope"})
  /\ IF Top.pc = "statement"
     THEN IF check(S, "PRINT")
            THEN Commit(advance(S), Rest \o <<At("print_statement")>>)
          ELSE IF check(S, "IF")
            THEN Commit(advance(S), Rest \o <<At("if_statement")>>)
          ELSE IF check(S, "WHILE")
            THEN Commit(advance(S), Rest \o <<At("while_statement")>>)
          ELSE IF check(S, "LEFT_BRACE")
            THEN \* i and j are history: local_count and scope_depth on entry
                 Commit(begin_scope(advance(S)),
                        Rest \o <<Frame("statement_end_scope", local_count(S.state),
                                        S.state.scope_depth, "", FALSE),
                                  At("block")>>)
          ELSE Commit(S, Rest \o <<At("expression_statement")>>)
     ELSE Commit(end_scope(S), Rest)

\* Compiler::block
Block ==
  /\ InFrame({"block"})
  /\ IF ~check(S, "RIGHT_BRACE") /\ ~check(S, "Eof")
     THEN Commit(S, Rest \o <<At("block"), At("declaration")>>)
     ELSE Commit(consume(S, "RIGHT_BRACE", "Expect '}' after block."), Rest)

\* Compiler::print_statement
PrintStatement ==
  /\ InFrame({"print_statement", "print_statement_end"})
  /\ IF Top.pc = "print_statement"
     THEN Commit(S, Rest \o <<At("print_statement_end"), Expression>>)
     ELSE Commit(emit_byte(consume(S, "SEMICOLON", "Expect ';' after value."),
                           Op("Print")), Rest)

\* Compiler::expression_statement
ExpressionStatement ==
  /\ InFrame({"expression_statement", "expression_statement_end"})
  /\ IF Top.pc = "expression_statement"
     THEN Commit(S, Rest \o <<Frame("expression_statement_end",
                                    ChunkSize(S.chunk), 0, "", FALSE),
                              Expression>>)
     ELSE LET emitted(s) ==
                [s EXCEPT !.expr_stmts =
                   @ \cup {[start |-> Top.i, end |-> ChunkSize(s.chunk)]}]
          IN Commit(emitted(emit_byte(
                      consume(S, "SEMICOLON", "Expect ';' after expression."),
                      Op("Pop"))), Rest)

\* Compiler::if_statement
IfStatement ==
  /\ InFrame({"if_statement", "if_condition", "if_then", "if_else"})
  /\ CASE Top.pc = "if_statement" ->
            Commit(consume(S, "LEFT_PAREN", "Expect '(' after 'if'."),
                   Rest \o <<At("if_condition"), Expression>>)
       [] Top.pc = "if_condition" ->
            LET r == emit_jump(consume(S, "RIGHT_PAREN", "Expect ')' after condition."),
                               Op("JumpIfFalse"))
            IN Commit(emit_byte(r.s, Op("Pop")),
                 Rest \o <<Frame("if_then", r.v, 0, "", FALSE), At("statement")>>)
       [] Top.pc = "if_then" ->
            LET r == emit_jump(S, Op("Jump"))
                s1 == emit_byte(patch_jump(r.s, Top.i), Op("Pop"))
            IN IF check(s1, "ELSE")
               THEN Commit(advance(s1),
                      Rest \o <<Frame("if_else", r.v, 0, "", FALSE), At("statement")>>)
               ELSE Commit(patch_jump(s1, r.v), Rest)
       [] Top.pc = "if_else" -> Commit(patch_jump(S, Top.i), Rest)

\* Compiler::while_statement
WhileStatement ==
  /\ InFrame({"while_statement", "while_condition", "while_body"})
  /\ CASE Top.pc = "while_statement" ->
            Commit(consume(S, "LEFT_PAREN", "Expect '(' after 'while'."),
                   Rest \o <<Frame("while_condition", ChunkSize(S.chunk), 0, "", FALSE),
                             Expression>>)
       [] Top.pc = "while_condition" ->
            LET r == emit_jump(consume(S, "RIGHT_PAREN", "Expect ')' after condition."),
                               Op("JumpIfFalse"))
            IN Commit(emit_byte(r.s, Op("Pop")),
                 Rest \o <<Frame("while_body", Top.i, r.v, "", FALSE), At("statement")>>)
       [] Top.pc = "while_body" ->
            LET emitted(s) ==
                  [s EXCEPT !.while_stmts =
                     @ \cup {[start |-> Top.i, exit |-> Top.j - 1,
                              loop |-> ChunkSize(S.chunk),
                              end |-> ChunkSize(s.chunk)]}]
            IN Commit(emitted(emit_byte(patch_jump(emit_loop(S, Top.i), Top.j),
                                        Op("Pop"))), Rest)

\* a faulty variant of can_assign, which allows no assignment
can_assign_never(precedence) == FALSE

\* can_assign in Compiler::parse_precedence
can_assign(precedence) == precedence <= Prec("ASSIGNMENT")

\* Compiler::parse_precedence
ParsePrecedence ==
  /\ InFrame({"parse_precedence", "parse_precedence_infix"})
  /\ IF Top.pc = "parse_precedence"
     THEN LET s == advance(S)
              prefix_rule == get_rule(s.parser.previous.type).prefix
          IN IF prefix_rule = ""
             THEN Commit(error(s, "Expected expression."), Rest)
             ELSE Commit(s,
                    Rest \o <<Frame("parse_precedence_infix", Top.i, 0, "",
                                    can_assign(Top.i)),
                              Frame(prefix_rule, 0, 0, "", can_assign(Top.i))>>)
     ELSE IF Top.i <= get_rule(S.parser.current.type).precedence
          THEN LET s == advance(S)
                   infix_rule == get_rule(s.parser.previous.type).infix
               IN Commit(s, Rest \o <<Top, Frame(infix_rule, 0, 0, "", Top.f)>>)
          ELSE IF Top.f /\ check(S, "EQUAL")
               THEN Commit(error(advance(S), "Invalid assignment target."), Rest)
               ELSE Commit(S, Rest)

\* Compiler::grouping
Grouping ==
  /\ InFrame({"grouping", "grouping_end"})
  /\ IF Top.pc = "grouping"
     THEN Commit(S, Rest \o <<At("grouping_end"), Expression>>)
     ELSE Commit(consume(S, "RIGHT_PAREN", "Expect ')' after expression."), Rest)

\* Compiler::unary
Unary ==
  /\ InFrame({"unary", "unary_end"})
  /\ IF Top.pc = "unary"
     THEN Commit(S, Rest \o <<Frame("unary_end", 0, 0, S.parser.previous.type, FALSE),
                              ParsePrec(Prec("UNARY"))>>)
     ELSE Commit(CASE Top.t = "MINUS" -> emit_byte(S, Op("Negate"))
                   [] Top.t = "BANG" -> emit_byte(S, Op("Not"))
                   [] OTHER -> S, Rest)

\* a faulty variant of the switch of binary(), which leaves out the Not of
\* the two-opcode operators
binary_emit_single(s, operator_type) ==
  CASE operator_type \in {"BANG_EQUAL", "EQUAL_EQUAL"} -> emit_byte(s, Op("Equal"))
    [] operator_type \in {"GREATER", "LESS_EQUAL"} -> emit_byte(s, Op("Greater"))
    [] operator_type \in {"LESS", "GREATER_EQUAL"} -> emit_byte(s, Op("Less"))
    [] operator_type = "PLUS" -> emit_byte(s, Op("Add"))
    [] operator_type = "MINUS" -> emit_byte(s, Op("Subtract"))
    [] operator_type = "STAR" -> emit_byte(s, Op("Mutliply"))
    [] operator_type = "SLASH" -> emit_byte(s, Op("Divide"))
    [] OTHER -> s

\* the switch of Compiler::binary
binary_emit(s, operator_type) ==
  CASE operator_type = "BANG_EQUAL" -> emit_bytes(s, Op("Equal"), Op("Not"))
    [] operator_type = "EQUAL_EQUAL" -> emit_byte(s, Op("Equal"))
    [] operator_type = "GREATER" -> emit_byte(s, Op("Greater"))
    [] operator_type = "GREATER_EQUAL" -> emit_bytes(s, Op("Less"), Op("Not"))
    [] operator_type = "LESS" -> emit_byte(s, Op("Less"))
    [] operator_type = "LESS_EQUAL" -> emit_bytes(s, Op("Greater"), Op("Not"))
    [] operator_type = "PLUS" -> emit_byte(s, Op("Add"))
    [] operator_type = "MINUS" -> emit_byte(s, Op("Subtract"))
    [] operator_type = "STAR" -> emit_byte(s, Op("Mutliply"))
    [] operator_type = "SLASH" -> emit_byte(s, Op("Divide"))
    [] OTHER -> s

\* Compiler::binary
Binary ==
  /\ InFrame({"binary", "binary_end"})
  /\ IF Top.pc = "binary"
     THEN LET operator_type == S.parser.previous.type
              rule == get_rule(operator_type)
          IN Commit(S, Rest \o <<Frame("binary_end", 0, 0, operator_type, FALSE),
                                 ParsePrec(rule.precedence + 1)>>)
     ELSE Commit(binary_emit(S, Top.t), Rest)

\* Compiler::number
Number ==
  /\ InFrame({"number"})
  /\ Commit(emit_constant(S, from_chars(S.parser.previous.lexme, 1, 0, 1, FALSE)), Rest)

\* Compiler::string: the lexeme without its quotes
String ==
  /\ InFrame({"string"})
  /\ Commit(emit_constant(S,
       MakeString(SubSeq(S.parser.previous.lexme, 2,
                         Len(S.parser.previous.lexme) - 1))), Rest)

\* Compiler::literal
Literal ==
  /\ InFrame({"literal"})
  /\ Commit(CASE S.parser.previous.type = "FALSE" -> emit_byte(S, Op("False"))
              [] S.parser.previous.type = "NIL" -> emit_byte(S, Op("Nil"))
              [] S.parser.previous.type = "TRUE" -> emit_byte(S, Op("True"))
              [] OTHER -> S, Rest)

\* Compiler::variable and Compiler::named_variable
Variable ==
  /\ InFrame({"variable", "named_variable_end"})
  /\ IF Top.pc = "variable"
     THEN LET token == S.parser.previous
              r == resolve_local(S, token)
              g == identifier_constant(r.s, token)
              global == r.v = -1
              s == IF global THEN g.s ELSE r.s
              arg == IF global THEN g.v ELSE r.v
              get_op == IF global THEN Op("GetGlobal") ELSE Op("GetLocal")
              set_op == IF global THEN Op("SetGlobal") ELSE Op("Setlocal")
          IN IF Top.f /\ check(s, "EQUAL")
             THEN Commit(advance(s),
                    Rest \o <<Frame("named_variable_end", set_op, arg, "", FALSE),
                              Expression>>)
             ELSE Commit(emit_bytes(s, get_op, arg), Rest)
     ELSE Commit(emit_bytes(S, Top.i, Top.j), Rest)

\* Compiler::and_
And ==
  /\ InFrame({"and_", "and_end"})
  /\ IF Top.pc = "and_"
     THEN LET r == emit_jump(S, Op("JumpIfFalse"))
          IN Commit(emit_byte(r.s, Op("Pop")),
               Rest \o <<Frame("and_end", r.v, 0, "", FALSE), ParsePrec(Prec("AND"))>>)
     ELSE Commit(patch_jump(S, Top.i), Rest)

\* Compiler::or_ (it calls emit_jump(OpCode::Pop))
Or ==
  /\ InFrame({"or_", "or_end"})
  /\ IF Top.pc = "or_"
     THEN LET else_jump == emit_jump(S, Op("JumpIfFalse"))
              end_jump == emit_jump(else_jump.s, Op("Jump"))
              s == emit_jump(patch_jump(end_jump.s, else_jump.v), Op("Pop")).s
          IN Commit(s, Rest \o <<Frame("or_end", end_jump.v, 0, "", FALSE),
                                 ParsePrec(Prec("OR"))>>)
     ELSE Commit(patch_jump(S, Top.i), Rest)

(***************************************************************************)
(* Number arithmetic.  A double is the fraction n/d; d = 0 stands for the  *)
(* non-finite values: n = 1 is +inf, n = -1 is -inf, n = 0 is NaN.         *)
(* (Rounding and the sign of zero are not modelled.)                       *)
(***************************************************************************)
Sign(x) == IF x > 0 THEN 1 ELSE IF x < 0 THEN -1 ELSE 0

NonFinite(n) == [t |-> "Number", b |-> FALSE, n |-> n, d |-> 0, s |-> ""]

IsNaN(a) == a.d = 0 /\ a.n = 0

NumNeg(a) == [a EXCEPT !.n = -a.n]

\* std::plus<>
NumAdd(a, b) ==
  IF a.d # 0 /\ b.d # 0 THEN MakeNumber(a.n * b.d + b.n * a.d, a.d * b.d)
  ELSE IF a.d = 0 /\ b.d = 0 THEN (IF a.n = b.n THEN a ELSE NonFinite(0))
  ELSE IF a.d = 0 THEN a ELSE b

\* std::minus<>
NumSub(a, b) == NumAdd(a, NumNeg(b))

\* std::multiplies<>
NumMul(a, b) ==
  IF a.d # 0 /\ b.d # 0 THEN MakeNumber(a.n * b.n, a.d * b.d)
  ELSE NonFinite(Sign(a.n) * Sign(b.n))

\* std::divides<>
NumDiv(a, b) ==
  IF b.d = 0 THEN (IF a.d = 0 \/ b.n = 0 THEN NonFinite(0) ELSE MakeNumber(0, 1))
  ELSE IF b.n = 0 THEN NonFinite(Sign(a.n))
  ELSE IF a.d = 0 THEN NonFinite(a.n * Sign(b.n))
  ELSE MakeNumber(a.n * b.d * Sign(b.n), a.d * Abs(b.n))

\* std::less<>
NumLess(a, b) ==
  IF IsNaN(a) \/ IsNaN(b) THEN FALSE
  ELSE IF a.d = 0 THEN a.n = -1 /\ ~(b.d = 0 /\ b.n = -1)
  ELSE IF b.d = 0 THEN b.n = 1
  ELSE a.n * b.d < b.n * a.d

\* operator== of Value: the same alternative holding equal values
ValueEq(a, b) ==
  /\ a.t = b.t
  /\ CASE a.t = "Boolean" -> a.b = b.b
       [] a.t = "Number" -> ~IsNaN(a) /\ a.n = b.n /\ a.d = b.d
       [] OTHER -> a.s = b.s

(***************************************************************************)
(* operator<< of a Value: bool without boolalpha, double as %g with        *)
(* precision 6, string as its bytes.                                       *)
(***************************************************************************)
RECURSIVE NatStr(_)
NatStr(n) == IF n < 10 THEN Digits[n + 1] ELSE NatStr(n \div 10) \o Digits[(n % 10) + 1]

RECURSIVE Pow10(_)
Pow10(k) == IF k <= 0 THEN 1 ELSE 10 * Pow10(k - 1)

\* n/d >= 10^x
AtLeastPow10(n, d, x) ==
  IF x >= 0 THEN n >= d * Pow10(x) ELSE n * Pow10(-x) >= d

\* the decimal exponent of n/d > 0: the X with 10^X <= n/d < 10^(X+1)
RECURSIVE Exp10(_, _, _)
Exp10(n, d, x) ==
  IF ~AtLeastPow10(n, d, x) THEN Exp10(n, d, x - 1)
  ELSE IF AtLeastPow10(n, d, x + 1) THEN Exp10(n, d, x + 1)
  ELSE x

\* n/d scaled by 10^k, rounded to the nearest integer (ties to even)
Scaled(n, d, k) ==
  LET num == IF k >= 0 THEN n * Pow10(k) ELSE n
      den == IF k >= 0 THEN d ELSE d * Pow10(-k)
      q == num \div den
      r2 == 2 * (num % den)
  IN IF r2 > den \/ (r2 = den /\ q % 2 = 1) THEN q + 1 ELSE q

RECURSIVE StripZeros(_)
StripZeros(digits) ==
  IF Len(digits) > 0 /\ SubSeq(digits, Len(digits), Len(digits)) = "0"
  THEN StripZeros(SubSeq(digits, 1, Len(digits) - 1))
  ELSE digits

RECURSIVE PadLeft(_, _)
PadLeft(digits, width) ==
  IF Len(digits) >= width THEN digits ELSE PadLeft("0" \o digits, width)

Precision == 6

\* n/d > 0 in %g form
FormatPositive(n, d) ==
  LET x0 == Exp10(n, d, 0)
      m0 == Scaled(n, d, Precision - 1 - x0)
      x == IF m0 >= Pow10(Precision) THEN x0 + 1 ELSE x0
      m == IF m0 >= Pow10(Precision) THEN m0 \div 10 ELSE m0
      digits == NatStr(m)
  IN IF x < -4 \/ x >= Precision
     THEN LET frac == StripZeros(SubSeq(digits, 2, Len(digits)))
          IN SubSeq(digits, 1, 1) \o (IF frac = "" THEN "" ELSE "." \o frac)
             \o "e" \o (IF x < 0 THEN "-" ELSE "+") \o PadLeft(NatStr(Abs(x)), 2)
     ELSE IF x >= 0
     THEN LET frac == StripZeros(SubSeq(digits, x + 2, Len(digits)))
          IN SubSeq(digits, 1, x + 1) \o (IF frac = "" THEN "" ELSE "." \o frac)
     ELSE "0." \o PadLeft("", -x - 1) \o StripZeros(digits)

FormatNumber(a) ==
  IF a.d = 0 THEN (IF a.n = 0 THEN "nan" ELSE IF a.n > 0 THEN "inf" ELSE "-inf")
  ELSE IF a.n = 0 THEN "0"
  ELSE (IF a.n < 0 THEN "-" ELSE "") \o FormatPositive(Abs(a.n), a.d)

FormatValue(value) ==
  CASE value.t = "Boolean" -> (IF value.b THEN "1" ELSE "0")
    [] value.t = "Number" -> FormatNumber(value)
    [] OTHER -> value.s

(***************************************************************************)
(* Stack<Value, 256>.  `stack` holds data[0 .. Len(stack)-1]; the slots    *)
(* above were never written and hold a default-constructed Value, which is *)
(* the variant's first alternative, Boolean false.  k = [data, top, ub]:   *)
(* ub is set by an access outside the array (undefined behaviour).         *)
(***************************************************************************)
\* Vm::stack_size
stack_size == 256

DefaultValue == MakeBoolean(FALSE)

K == [data |-> stack, top |-> stack_top, ub |-> FALSE]

\* data[index] = value
StackSet(k, index, value) ==
  IF k.ub \/ index < 0 \/ index >= stack_size THEN [k EXCEPT !.ub = TRUE]
  ELSE IF index < Len(k.data) THEN [k EXCEPT !.data[index + 1] = value]
  ELSE [k EXCEPT !.data =
          Append(@ \o [i \in 1..(index - Len(@)) |-> DefaultValue], value)]

\* data[index]: [k, v]
StackAt(k, index) ==
  IF k.ub \/ index < 0 \/ index >= stack_size
  THEN [k |-> [k EXCEPT !.ub = TRUE], v |-> DefaultValue]
  ELSE [k |-> k, v |-> IF index < Len(k.data) THEN k.data[index + 1] ELSE DefaultValue]

\* Stack::push
StackPush(k, value) == [StackSet(k, k.top, value) EXCEPT !.top = @ + 1]

\* Stack::pop: [k, v]; on an empty stack --stack_top wraps round and the read
\* is outside the array
StackPop(k) ==
  LET r == StackAt(k, k.top - 1)
  IN [k |-> [r.k EXCEPT !.top = @ - 1], v |-> r.v]

\* Vm::peek: stack.at(stack.top() + offset - 1)
vm_peek(k, offset) == StackAt(k, k.top + offset - 1)

\* Vm::is_falsey
is_falsey(value) ==
  \/ is("Number", value) /\ ValueEq(value, MakeNumber(0, 1))
  \/ is("Boolean", value) /\ ~value.b

(***************************************************************************)
(* Vm::interpret and Vm::run.                                              *)
(***************************************************************************)
\* stmt_entry once run() has come to new_ip with stack_top = top
Entered(entry, new_ip, top) ==
  IF \/ \E e \in expr_stmts : e.start = new_ip
     \/ \E w \in while_stmts : w.start = new_ip
  THEN [a \in DOMAIN entry \cup {new_ip} |-> IF a = new_ip THEN top ELSE entry[a]]
  ELSE entry

\* the rest of Vm::interpret(Compiler&), after compile() has returned
InterpretCompiled ==
  /\ mode = "compiled"
  /\ IF ~compiled.has_value
     THEN /\ result' = "CompileError"
          /\ mode' = "idle"
          /\ UNCHANGED <<chunk, ip>>
          /\ UNCHANGED stmt_entry
     ELSE /\ chunk' = compiled.chunk
          /\ ip' = 0
          /\ mode' = "running"
          /\ stmt_entry' = Entered(<<>>, 0, stack_top)
          /\ UNCHANGED result
  /\ UNCHANGED <<stack, stack_top, globals, printed, pending, compiled>>
  /\ UNCHANGED compiler_vars

\* the instruction read_byte_as<OpCode>() fetches is `name`
Fetch(name) ==
  /\ mode = "running"
  /\ ip < Len(chunk.data)
  /\ chunk.data[ip + 1] = Op(name)

\* the byte at offset i of the code
Code(i) == chunk.data[i + 1]

\* operator<< of std::byte: the result is a std::byte again
byte_shl(b, shift) == (b * 2 ^ shift) % 256

\* operator| of std::byte
RECURSIVE byte_or(_, _)
byte_or(l, r) ==
  IF l = 0 THEN r
  ELSE IF r = 0 THEN l
  ELSE (IF l % 2 = 1 \/ r % 2 = 1 THEN 1 ELSE 0) + 2 * byte_or(l \div 2, r \div 2)

\* Vm::read_short, called with ip just after the opcode: chunk.data holds
\* std::byte, so `chunk.data[ip - 2] << 8` is a std::byte too
read_short == byte_or(byte_shl(Code(ip + 1), 8), Code(ip + 2)) % 65536

\* run() goes on at new_ip with stack k, unless k saw undefined behaviour
Continue(k, new_ip) ==
  /\ stack' = k.data
  /\ stack_top' = k.top
  /\ IF k.ub
     THEN mode' = "aborted" /\ result' = "undefined" /\ UNCHANGED <<ip, stmt_entry>>
     ELSE /\ ip' = new_ip
          /\ stmt_entry' = Entered(stmt_entry, new_ip, k.top)
          /\ UNCHANGED <<mode, result>>
  /\ UNCHANGED <<chunk, pending, compiled>>
  /\ UNCHANGED compiler_vars

\* run() returns res
RunReturns(res) ==
  /\ mode' = "idle"
  /\ result' = res
  /\ UNCHANGED <<chunk, stack, stack_top, globals, printed, pending, compiled,
                 stmt_entry>>
  /\ UNCHANGED compiler_vars

\* an exception leaves run() and interpret() with stack k
Throw(k) ==
  /\ stack' = k.data
  /\ stack_top' = k.top
  /\ mode' = "aborted"
  /\ result' = IF k.ub THEN "undefined" ELSE "exception"
  /\ UNCHANGED <<chunk, ip, pending, compiled, stmt_entry>>
  /\ UNCHANGED compiler_vars

\* Func{}(a, b) for the function objects binary_op is instantiated with
Apply(Func, a, b) ==
  CASE Func = "plus" -> NumAdd(a, b)
    [] Func = "minus" -> NumSub(a, b)
    [] Func = "multiplies" -> NumMul(a, b)
    [] Func = "divides" -> NumDiv(a, b)
    [] Func = "greater" -> MakeBoolean(NumLess(b, a))
    [] Func = "less" -> MakeBoolean(NumLess(a, b))

\* Vm::binary_op<Func>: [k, throws].  The visitor gets (rhs, lhs), that is
\* the value popped second as its lhs_val.
binary_op(k, Func) ==
  LET lhs == StackPop(k)
      rhs == StackPop(lhs.k)
      lhs_val == rhs.v
      rhs_val == lhs.v
  IN IF rhs.k.ub THEN [k |-> rhs.k, throws |-> FALSE]
     ELSE IF lhs_val.t = rhs_val.t
     THEN IF lhs_val.t = "Number"
            THEN [k |-> StackPush(rhs.k, Apply(Func, lhs_val, rhs_val)),
                  throws |-> FALSE]
          ELSE IF lhs_val.t = "String"
            THEN [k |-> StackPush(rhs.k, MakeString(lhs_val.s \o rhs_val.s)),
                  throws |-> FALSE]
          ELSE [k |-> rhs.k, throws |-> TRUE]
     ELSE [k |-> rhs.k, throws |-> FALSE]

\* a case of run() that calls binary_op<Func> and breaks
BinaryBreak(Func) ==
  /\ LET r == binary_op(K, Func)
     IN IF r.throws THEN Throw(r.k) ELSE Continue(r.k, ip + 1)
  /\ UNCHANGED <<globals, printed>>

OpPrint ==
  /\ Fetch("Print")
  /\ LET r == StackPop(K)
     IN /\ Continue(r.k, ip + 1)
        /\ printed' = IF r.k.ub THEN printed ELSE Append(printed, FormatValue(r.v))
  /\ UNCHANGED globals

Loop ==
  /\ Fetch("Loop")
  /\ Continue(K, ip + 3 - read_short)
  /\ UNCHANGED <<globals, printed>>

Return ==
  /\ Fetch("Return")
  /\ RunReturns("Ok")
  /\ UNCHANGED ip

Jump ==
  /\ Fetch("Jump")
  /\ Continue(K, ip + 3 + read_short)
  /\ UNCHANGED <<globals, printed>>

JumpIfFalse ==
  /\ Fetch("JumpIfFalse")
  /\ LET r == vm_peek(K, 0)
     IN Continue(r.k, IF is_falsey(r.v) THEN ip + 3 + read_short ELSE ip + 3)
  /\ UNCHANGED <<globals, printed>>

Negate ==
  /\ Fetch("Negate")
  /\ LET r == vm_peek(K, 0)
     IN IF r.k.ub THEN Continue(r.k, ip + 1) /\ UNCHANGED <<globals, printed>>
        ELSE IF is("Number", r.v) THEN RunReturns("RuntimeError") /\ ip' = ip + 1
        ELSE Throw(StackPop(K).k) /\ UNCHANGED <<globals, printed>>

Add ==
  /\ Fetch("Add")
  /\ BinaryBreak("plus")

Subtract ==
  /\ Fetch("Subtract")
  /\ BinaryBreak("minus")

Mutliply ==
  /\ Fetch("Mutliply")
  /\ BinaryBreak("multiplies")

Divide ==
  /\ Fetch("Divide")
  /\ BinaryBreak("divides")

Not ==
  /\ Fetch("Not")
  /\ LET r == StackPop(K)
     IN Continue(StackPush(r.k, MakeBoolean(is_falsey(r.v))), ip + 1)
  /\ UNCHANGED <<globals, printed>>

\* chunk.constants[index]: [v, ub]
ConstantAt(index) ==
  IF index < Len(chunk.constants)
  THEN [v |-> chunk.constants[index + 1], ub |-> FALSE]
  ELSE [v |-> DefaultValue, ub |-> TRUE]

Constant ==
  /\ Fetch("Constant")
  /\ LET c == ConstantAt(Code(ip + 1))
     IN Continue(StackPush([K EXCEPT !.ub = c.ub], c.v), ip + 2)
  /\ UNCHANGED <<globals, printed>>

Nil ==
  /\ Fetch("Nil")
  /\ Continue(StackPush(K, MakeNumber(0, 1)), ip + 1)
  /\ UNCHANGED <<globals, printed>>

True ==
  /\ Fetch("True")
  /\ Continue(StackPush(K, MakeBoolean(TRUE)), ip + 1)
  /\ UNCHANGED <<globals, printed>>

False ==
  /\ Fetch("False")
  /\ Continue(StackPush(K, MakeBoolean(FALSE)), ip + 1)
  /\ UNCHANGED <<globals, printed>>

Pop ==
  /\ Fetch("Pop")
  /\ Continue(StackPop(K).k, ip + 1)
  /\ UNCHANGED <<globals, printed>>

GetLocal ==
  /\ Fetch("GetLocal")
  /\ LET r == StackAt(K, Code(ip + 1))
     IN Continue(StackPush(r.k, r.v), ip + 2)
  /\ UNCHANGED <<globals, printed>>

Setlocal ==
  /\ Fetch("Setlocal")
  /\ LET r == vm_peek(K, 0)
     IN Continue(StackSet(r.k, Code(ip + 1), r.v), ip + 2)
  /\ UNCHANGED <<globals, printed>>

\* a faulty variant of the assignment to globals[name], which stores a
\* default-constructed Value
globals_set_default(name, value) ==
  [n \in DOMAIN globals \cup {name} |-> IF n = name THEN DefaultValue ELSE globals[n]]

\* a faulty variant of the assignment to globals[name], which forgets the
\* other bindings
globals_set_only(name, value) == [n \in {name} |-> value]

\* globals[name] = value
GlobalsSet(name, value) ==
  [n \in DOMAIN globals \cup {name} |-> IF n = name THEN value ELSE globals[n]]

\* read_constant() of a global instruction, c being ConstantAt of its operand
is_name(c) == ~c.ub /\ is("String", c.v)

\* std::get<String> applied to a constant that holds no string throws; a
\* constant outside the pool is read outside the vector
NoName(c) ==
  /\ IF c.ub THEN Continue([K EXCEPT !.ub = TRUE], ip + 2) ELSE Throw(K)
  /\ UNCHANGED <<globals, printed>>

GetGlobal ==
  /\ Fetch("GetGlobal")
  /\ LET c == ConstantAt(Code(ip + 1))
     IN IF ~is_name(c) THEN NoName(c)
        ELSE IF c.v.s \notin DOMAIN globals
        THEN RunReturns("RuntimeError") /\ ip' = ip + 2
        ELSE /\ Continue(StackPush(K, globals[c.v.s]), ip + 2)
             /\ UNCHANGED <<globals, printed>>

DefineGlobal ==
  /\ Fetch("DefineGlobal")
  /\ LET c == ConstantAt(Code(ip + 1))
         r == StackPop(K)
     IN IF ~is_name(c) THEN NoName(c)
        ELSE /\ Continue(r.k, ip + 2)
             /\ globals' = IF r.k.ub THEN globals ELSE GlobalsSet(c.v.s, r.v)
             /\ UNCHANGED printed

SetGlobal ==
  /\ Fetch("SetGlobal")
  /\ LET c == ConstantAt(Code(ip + 1))
         r == vm_peek(K, 0)
     IN IF ~is_name(c) THEN NoName(c)
        ELSE IF c.v.s \notin DOMAIN globals
        THEN RunReturns("RuntimeError") /\ ip' = ip + 2
        ELSE /\ Continue(r.k, ip + 2)
             /\ globals' = IF r.k.ub THEN globals ELSE GlobalsSet(c.v.s, r.v)
             /\ UNCHANGED printed

Equal ==
  /\ Fetch("Equal")
  /\ LET b == StackPop(K)
         a == StackPop(b.k)
     IN Continue(StackPush(a.k, MakeBoolean(ValueEq(a.v, b.v))), ip + 1)
  /\ UNCHANGED <<globals, printed>>

Greater ==
  /\ Fetch("Greater")
  /\ BinaryBreak("greater")

Less ==
  /\ Fetch("Less")
  /\ BinaryBreak("less")

\* a byte that is no OpCode enumerator: no case of the switch matches, and
\* the loop of run() goes on with the next byte
NoCase ==
  /\ mode = "running"
  /\ ip < Len(chunk.data)
  /\ chunk.data[ip + 1] >= Len(OpCode)
  /\ Continue(K, ip + 1)
  /\ UNCHANGED <<globals, printed>>

(***************************************************************************)
(* The sources compiled and run.                                           *)
(***************************************************************************)
RECURSIVE Repeated(_, _)
Repeated(text, n) ==
  IF n = 0 THEN ""
  ELSE LET twice(half) == half \o half \o (IF n % 2 = 1 THEN text ELSE "")
       IN twice(Repeated(text, n \div 2))

\* blocks nested in one another, each declaring one local
ManyLocals == 257

\* expression statements, each adding one constant
ManyConstants == 257

\* operands of one expression, each on the stack until the last is pushed
ManyOperands == 257

\* statements of two bytes each in the body of an if or a while
LongBody == 128

\* the operators of binary(): spelling, token type, emitted opcodes
BinaryOperators ==
  { [text |-> "!=", type |-> "BANG_EQUAL", code |-> <<"Equal", "Not">>],
    [text |-> "==", type |-> "EQUAL_EQUAL", code |-> <<"Equal">>],
    [text |-> ">", type |-> "GREATER", code |-> <<"Greater">>],
    [text |-> ">=", type |-> "GREATER_EQUAL", code |-> <<"Less", "Not">>],
    [text |-> "<", type |-> "LESS", code |-> <<"Less">>],
    [text |-> "<=", type |-> "LESS_EQUAL", code |-> <<"Greater", "Not">>],
    [text |-> "+", type |-> "PLUS", code |-> <<"Add">>],
    [text |-> "-", type |-> "MINUS", code |-> <<"Subtract">>],
    [text |-> "*", type |-> "STAR", code |-> <<"Mutliply">>],
    [text |-> "/", type |-> "SLASH", code |-> <<"Divide">>] }

\* print 8 op1 4 op2 2;
ThreeOperands(op1, op2) ==
  "print 8 " \o op1.text \o " 4 " \o op2.text \o " 2;"

\* expressions of every kind of value, with the truthiness each one has
Conditions ==
  { [text |-> "nil", truthy |-> FALSE],
    [text |-> "false", truthy |-> FALSE],
    [text |-> "0", truthy |-> FALSE],
    [text |-> "0.0", truthy |-> FALSE],
    [text |-> "7", truthy |-> TRUE],
    [text |-> "0.5", truthy |-> TRUE],
    [text |-> "true", truthy |-> TRUE],
    [text |-> "\"\"", truthy |-> TRUE],
    [text |-> "\"b\"", truthy |-> TRUE] }

\* operands the output tells apart, with what operator<< writes for them
Operands ==
  { [text |-> "false", truthy |-> FALSE, shown |-> "0"],
    [text |-> "7", truthy |-> TRUE, shown |-> "7"],
    [text |-> "true", truthy |-> TRUE, shown |-> "1"],
    [text |-> "\"b\"", truthy |-> TRUE, shown |-> "b"] }

PrintAnd(a, b) == "print " \o a \o " and " \o b \o ";"

\* 2+1+1+...+1, an operand whose code is longer than 255 bytes
LongSum == "2" \o Repeated("+1", LongBody)

\* an if statement whose then branch is longer than 255 bytes
LongIf == "if (false) {" \o Repeated("print nil;", LongBody) \o "} print 2;"

\* n blocks in each other, each of which declares a local
NestedLocals(n) == Repeated("{ var x = nil; ", n) \o Repeated("}", n)

IfElse(condition) == "if (" \o condition \o ") print 1; else print 2;"

PrintNot(condition) == "print !" \o condition \o ";"

Programs ==
  { "print 1 + 2 * 3;",
    "print \"foo\" + \"bar\";",
    "var x = 0; while (x < 2) { if (x < 1) print x; x = x + 1; }",
    "var x = 0; while (x < 3) { print x; x = x + 1; }",
    "while (false) print 1; print 2;",
    LongIf,
    "var x = 0; while (x < 1) { x = x + 1;" \o Repeated("nil;", LongBody) \o "}",
    "if (true and false) print \"T\"; else print \"F\";",
    "if (1 < 2) 7;",
    "var b; print b;",
    "var b; if (b == 0) print 1; else print 2;",
    "{ var x = 1; { var y = 2; print x; } }",
    "{ var x = 1; { x = 2; } }",
    "var a = 1; { var a = 2; print a; } print a;",
    "var x = 1; { var x = 2; print x; } print x;",
    "{ var x = 1; { var x = 2; print x; } print x; }",
    "{ var x = 1; x = x + 1; print x; }",
    "{ var x = 1; var y = x; 1 + \"b\"; }",
    "{ var x = 1; var x = 2; }",
    "{ var x = x; }",
    "{ var x = 1; { var x = x + 1; print x; } }",
    "{ var x = 1; var y = 2; { var y = 3; } var x = 4; }",
    "print (6 - 2) / 4 > 1 == !false;",
    "false or 1;",
    "nil;",
    "-1;",
    "-\"b\";",
    "1 + \"b\";",
    "true + false;",
    "print \"a\" - \"b\";",
    "1 < \"b\";",
    "(;",
    "print 1 +; print (2;\nvar 3; @ print 4;",
    "{ print 1;",
    "} print \"b",
    " \n",
    "x = 1;",
    "1 = 2;",
    "x + y = b;",
    "{ var x = 1; x = 2 = 3; }",
    NestedLocals(ManyLocals),
    NestedLocals(ManyLocals - 1),
    NestedLocals(ManyLocals - 2),
    Repeated("1;", ManyConstants - 1),
    Repeated("1;", ManyConstants),
    Repeated("true==(", ManyOperands - 1) \o "true"
      \o Repeated(")", ManyOperands - 1) \o ";" }
  \cup { ThreeOperands(op1, op2) : op1, op2 \in BinaryOperators }
  \cup { IfElse(c.text) : c \in Conditions }
  \cup { PrintAnd(a.text, b.text) : a, b \in Operands }
  \cup { PrintAnd(a.text, LongSum) : a \in Operands }
  \cup { PrintNot(c.text) : c \in Conditions }

\* sources interpreted one after another by the same Vm
Sessions ==
  { <<"-1;", "nil;">>,
    <<"x = 1;", "print 2;">>,
    <<"var x = 1;", "x = x + 1; print x;">>,
    <<"var x = 1;", "x = 2; y = 3;">>,
    <<"var x = 1;", "print x; print y;">>,
    <<"var x = 1; var y = 2;", "var x = 3; print x; print y;">>,
    <<"var x = 1;", "(;", "y = 2;", "print x;">> }

Init ==
  /\ pending \in {<<source>> : source \in Programs} \cup Sessions
  /\ mode = "idle"
  /\ scanner = [source |-> "", start |-> 0, current |-> 0, line |-> 0]
  /\ parser = ParserInit
  /\ compiling_chunk = EmptyChunk
  /\ current_state = CompilerStateInit
  /\ cout = <<>>
  /\ panic_errors = 0
  /\ panic_diags = 0
  /\ expr_stmts = {}
  /\ while_stmts = {}
  /\ frames = <<>>
  /\ compiled = NoChunk
  /\ chunk = EmptyChunk
  /\ ip = 0
  /\ stack = <<>>
  /\ stack_top = 0
  /\ globals = <<>>
  /\ result = "none"
  /\ printed = <<>>
  /\ stmt_entry = <<>>

Next ==
  \/ Interpret
  \/ Compile \/ Declaration \/ VarDeclaration \/ Statement \/ Block
  \/ PrintStatement \/ ExpressionStatement \/ IfStatement \/ WhileStatement
  \/ ParsePrecedence \/ Grouping \/ Unary \/ Binary \/ Number \/ String
  \/ Literal \/ Variable \/ And \/ Or
  \/ InterpretCompiled
  \/ OpPrint \/ Loop \/ Return \/ Jump \/ JumpIfFalse \/ Negate \/ Add
  \/ Subtract \/ Mutliply \/ Divide \/ Not \/ Constant \/ Nil \/ True \/ False
  \/ Pop \/ GetLocal \/ Setlocal \/ GetGlobal \/ DefineGlobal \/ SetGlobal
  \/ Equal \/ Greater \/ Less \/ NoCase

Spec == Init /\ [][Next]_vars

(***************************************************************************)
(* A Chunk on its own: write, add_constant and set called in any order on  *)
(* compiling_chunk, set with an index below size() as patch_jump calls it. *)
(***************************************************************************)
\* the longest code written
MaxCode == 3

\* the most constants added
MaxPool == 2

ChunkInit ==
  /\ pending = <<>>
  /\ mode = "idle"
  /\ scanner = [source |-> "", start |-> 0, current |-> 0, line |-> 0]
  /\ parser = ParserInit
  /\ compiling_chunk = EmptyChunk
  /\ current_state = CompilerStateInit
  /\ cout = <<>>
  /\ panic_errors = 0
  /\ panic_diags = 0
  /\ expr_stmts = {}
  /\ while_stmts = {}
  /\ frames = <<>>
  /\ compiled = NoChunk
  /\ chunk = EmptyChunk
  /\ ip = 0
  /\ stack = <<>>
  /\ stack_top = 0
  /\ globals = <<>>
  /\ result = "none"
  /\ printed = <<>>
  /\ stmt_entry = <<>>

Write ==
  /\ ChunkSize(compiling_chunk) < MaxCode
  /\ \E byte \in {0, 255}, line \in {0, 1} :
       compiling_chunk' = ChunkWrite(compiling_chunk, byte, line)
  /\ UNCHANGED <<pending, mode, compiled, scanner, parser, current_state, cout,
                 panic_errors, panic_diags, expr_stmts,
                 while_stmts, frames>>
  /\ UNCHANGED vm_vars

AddConstant ==
  /\ Len(compiling_chunk.constants) < MaxPool
  /\ \E value \in {MakeNumber(1, 1), MakeString("b")} :
       compiling_chunk' = ChunkAddConstant(compiling_chunk, value).ch
  /\ UNCHANGED <<pending, mode, compiled, scanner, parser, current_state, cout,
                 panic_errors, panic_diags, expr_stmts,
                 while_stmts, frames>>
  /\ UNCHANGED vm_vars

Set ==
  /\ \E index \in 0..(ChunkSize(compiling_chunk) - 1), value \in {0, 255} :
       compiling_chunk' = ChunkSet(compiling_chunk, index, value)
  /\ UNCHANGED <<pending, mode, compiled, scanner, parser, current_state, cout,
                 panic_errors, panic_diags, expr_stmts,
                 while_stmts, frames>>
  /\ UNCHANGED vm_vars

ChunkNext == Write \/ AddConstant \/ Set

ChunkSpec == ChunkInit /\ [][ChunkNext]_vars

(***************************************************************************)
(* The Scanner on its own: scan_token on sources of one identifier-shaped  *)
(* lexeme each.                                                            *)
(***************************************************************************)
\* the keywords of identifier_type
Spellings ==
  {"and", "class", "else", "false", "for", "fun", "if", "nil", "or", "print",
   "return", "super", "this", "true", "var", "while"}

\* a keyword, a keyword with a character more, and other names
Lexemes ==
  Spellings
    \cup {k \o "s" : k \in Spellings}
    \cup {k \o "1" : k \in Spellings}
    \cup {k \o "_" : k \in Spellings}
    \cup {"abc", "x1", "variable", "_x", "foo", "fxy", "thx", "X", "b2b"}

ScanInit ==
  /\ scanner \in {[source |-> lexeme, start |-> 0, current |-> 0, line |-> 0] :
                     lexeme \in Lexemes}
  /\ pending = <<>>
  /\ mode = "idle"
  /\ parser = ParserInit
  /\ compiling_chunk = EmptyChunk
  /\ current_state = CompilerStateInit
  /\ cout = <<>>
  /\ panic_errors = 0
  /\ panic_diags = 0
  /\ expr_stmts = {}
  /\ while_stmts = {}
  /\ frames = <<>>
  /\ compiled = NoChunk
  /\ chunk = EmptyChunk
  /\ ip = 0
  /\ stack = <<>>
  /\ stack_top = 0
  /\ globals = <<>>
  /\ result = "none"
  /\ printed = <<>>
  /\ stmt_entry = <<>>

\* parser.current = scanner.scan_token(), as Compiler::advance calls it
ScanToken ==
  /\ ~is_at_end(scanner.source, scanner)
  /\ LET scanned(r) ==
           /\ scanner' = [scanner EXCEPT !.start = r.sc.start,
                                          !.current = r.sc.current,
                                          !.line = r.sc.line]
           /\ parser' = [parser EXCEPT !.current = r.tok]
     IN scanned(scan_token(scanner.source, scanner))
  /\ UNCHANGED <<pending, mode, compiled, compiling_chunk, current_state, cout,
                 panic_errors, panic_diags, expr_stmts,
                 while_stmts, frames>>
  /\ UNCHANGED vm_vars

ScanNext == ScanToken

ScanSpec == ScanInit /\ [][ScanNext]_vars

(***************************************************************************)
(* The instructions of a chunk, as run() reads them from offset 0.         *)
(***************************************************************************)
\* the bytes of the instruction that begins with `byte`
InstructionSize(byte) ==
  IF byte \in {Op("Constant"), Op("GetLocal"), Op("Setlocal"),
               Op("GetGlobal"), Op("DefineGlobal"), Op("SetGlobal")} THEN 2
  ELSE IF byte \in {Op("Jump"), Op("JumpIfFalse"), Op("Loop")} THEN 3
  ELSE 1

\* the n instructions from offset i on: the offsets at which they begin and
\* the offset after the last of them
RECURSIVE Decode(_, _, _)
Decode(data, i, n) ==
  IF n = 0 \/ i >= Len(data) THEN [starts |-> {}, next |-> i]
  ELSE IF n = 1
  THEN [starts |-> {i}, next |-> i + InstructionSize(data[i + 1])]
  ELSE LET second(first) ==
             LET both(rest) == [starts |-> first.starts \cup rest.starts,
                                next |-> rest.next]
             IN both(Decode(data, first.next, n - n \div 2))
       IN second(Decode(data, i, n \div 2))

\* the offsets at which the instructions of ch begin
Starts(ch) == Decode(ch.data, 0, Len(ch.data)).starts

\* the operand of the instruction at offset i
Operand(ch, i) == ch.data[i + 2]

\* the 16-bit operand of the jump at offset i
JumpOperand(ch, i) == ch.data[i + 2] * 256 + ch.data[i + 3]

\* where the jump at offset i goes: ip is i + 3 once read_short has run
JumpTarget(ch, i) ==
  IF ch.data[i + 1] = Op("Loop") THEN i + 3 - JumpOperand(ch, i)
  ELSE i + 3 + JumpOperand(ch, i)

(***************************************************************************)
(* Properties.                                                             *)
(***************************************************************************)
\* C1: compile() returns a chunk if and only if it reported no error: once
\* a diagnostic is written had_error is set and the result is the empty
\* optional, and without a diagnostic the result is the chunk compiled.
CompileReturnsChunkIffNoError ==
  /\ mode \in {"compiling", "compiled"} => (parser.had_error <=> cout # <<>>)
  /\ mode = "compiled" =>
       /\ compiled.has_value <=> cout = <<>>
       /\ compiled.has_value => compiled.chunk = compiling_chunk
       /\ ~compiled.has_value => compiled = NoChunk

\* compile() has returned no chunk although it had emitted code
PartialEmissionDiscarded ==
  /\ mode = "compiled"
  /\ cout # <<>>
  /\ compiling_chunk.data # <<>>
  /\ ~compiled.has_value

\* C2: after any sequence of write, add_constant and set the chunk has as
\* many lines as code bytes; write adds one of each, and no operation takes
\* one away.
ChunkLinesFollowCode ==
  /\ [](Len(compiling_chunk.lines) = Len(compiling_chunk.data))
  /\ [][/\ Write => /\ Len(compiling_chunk'.data) = Len(compiling_chunk.data) + 1
                    /\ Len(compiling_chunk'.lines) = Len(compiling_chunk.lines) + 1
        /\ Len(compiling_chunk'.data) >= Len(compiling_chunk.data)
        /\ Len(compiling_chunk'.lines) >= Len(compiling_chunk.lines)
        /\ Len(compiling_chunk'.constants) >= Len(compiling_chunk.constants)]_vars

\* a chunk written to, added to and set
ChunkFilled ==
  /\ ChunkSize(compiling_chunk) = MaxCode
  /\ Len(compiling_chunk.constants) = MaxPool
  /\ compiling_chunk.data[1] = 255
  /\ compiling_chunk.data[MaxCode] = 0
  /\ compiling_chunk.lines[1] = 1

\* C3: in a chunk that compile() returns, the operand of every Constant,
\* GetGlobal, DefineGlobal and SetGlobal is the index of a constant of the
\* chunk, which for the three global instructions is a string.
ConstantOperandsValid ==
  (mode = "compiled" /\ compiled.has_value) =>
    \A i \in Starts(compiled.chunk) :
      compiled.chunk.data[i + 1] \in {Op("Constant"), Op("GetGlobal"),
                                      Op("DefineGlobal"), Op("SetGlobal")} =>
        /\ i + 2 <= Len(compiled.chunk.data)
        /\ Operand(compiled.chunk, i) < Len(compiled.chunk.constants)
        /\ compiled.chunk.data[i + 1] \in {Op("GetGlobal"), Op("DefineGlobal"),
                                           Op("SetGlobal")} =>
             is("String", compiled.chunk.constants[Operand(compiled.chunk, i) + 1])

\* compile() has returned a chunk with a Constant, a GetGlobal, a
\* DefineGlobal and a SetGlobal
ConstantOperandsCompiled ==
  /\ mode = "compiled"
  /\ compiled.has_value
  /\ \A op \in {Op("Constant"), Op("GetGlobal"), Op("DefineGlobal"), Op("SetGlobal")} :
       \E i \in Starts(compiled.chunk) : compiled.chunk.data[i + 1] = op

\* C4: in a chunk that compile() returns, every Jump, JumpIfFalse and Loop
\* goes to an offset inside the code at which an instruction begins.
JumpTargetsValid ==
  (mode = "compiled" /\ compiled.has_value) =>
    \A i \in Starts(compiled.chunk) :
      compiled.chunk.data[i + 1] \in {Op("Jump"), Op("JumpIfFalse"), Op("Loop")} =>
        /\ i + 3 <= Len(compiled.chunk.data)
        /\ JumpTarget(compiled.chunk, i) >= 0
        /\ JumpTarget(compiled.chunk, i) < Len(compiled.chunk.data)
        /\ JumpTarget(compiled.chunk, i) \in Starts(compiled.chunk)

\* compile() has returned a chunk with a Jump, a JumpIfFalse and a Loop
JumpsCompiled ==
  /\ mode = "compiled"
  /\ compiled.has_value
  /\ \A op \in {Op("Jump"), Op("JumpIfFalse"), Op("Loop")} :
       \E i \in Starts(compiled.chunk) : compiled.chunk.data[i + 1] = op

\* C5: when run() comes to the end of the code of an expression statement,
\* stack_top is what it was when run() came to the beginning of that code.
ExpressionStatementBalanced ==
  mode = "running" =>
    \A e \in expr_stmts :
      (ip = e.end /\ e.start \in DOMAIN stmt_entry) =>
        stack_top = stmt_entry[e.start]

\* the slot of the innermost initialised local named as token, or -1
RECURSIVE EnclosingLocal(_, _, _)
EnclosingLocal(st, token, i) ==
  IF i < 0 THEN -1
  ELSE IF st.locals[i + 1].token.lexme = token.lexme /\ st.locals[i + 1].depth # -1
  THEN i
  ELSE EnclosingLocal(st, token, i - 1)

\* named_variable() is about to resolve a name that an initialised local of
\* an enclosing block has, and no uninitialised one
NamesEnclosingLocal ==
  /\ InFrame({"variable"})
  /\ EnclosingLocal(current_state, parser.previous,
                    local_count(current_state) - 1) >= 0
  /\ \A k \in 1..local_count(current_state) :
       current_state.locals[k].token.lexme = parser.previous.lexme
         => current_state.locals[k].depth # -1

\* named_variable() has chosen the instruction `op` with operand `arg`: it
\* has emitted them, or keeps them until the assigned expression is compiled
Chosen(get_op, set_op, arg) ==
  \/ /\ Len(frames') = Len(frames) + 1
     /\ compiling_chunk'.data = compiling_chunk.data
     /\ frames'[Len(frames)].pc = "named_variable_end"
     /\ frames'[Len(frames)].i = set_op
     /\ frames'[Len(frames)].j = arg
  \/ /\ Len(frames') = Len(frames) - 1
     /\ compiling_chunk'.data = compiling_chunk.data \o <<get_op, arg>>

\* C6: a name that an initialised local of an enclosing block has is
\* compiled to GetLocal or SetLocal with the slot of the innermost such
\* local.
EnclosingLocalResolved ==
  [][NamesEnclosingLocal =>
       Chosen(Op("GetLocal"), Op("Setlocal"),
              EnclosingLocal(current_state, parser.previous,
                             local_count(current_state) - 1))]_vars

\* C7: local_count never exceeds 256, and every local above an
\* uninitialised one (depth -1) is uninitialised too.
LocalsBounded ==
  /\ local_count(current_state) <= LocalsSize
  /\ \A k \in 1..(local_count(current_state) - 1) :
       current_state.locals[k].depth = -1
         => current_state.locals[k + 1].depth = -1

\* the locals are as many as add_local lets them be, the last of them not
\* yet initialised and the one below it initialised
LocalsFull ==
  /\ mode = "compiling"
  /\ local_count(current_state) = LocalsSize - 1
  /\ current_state.locals[LocalsSize - 1].depth = -1
  /\ current_state.locals[LocalsSize - 2].depth >= 0

\* C8: from the error that sets panic_mode to the next synchronize() at
\* most one diagnostic is written, however many errors are reported.
OneDiagnosticPerPanic ==
  /\ panic_diags <= 1
  /\ parser.panic_mode => panic_diags = 1

\* a second error was reported in panic mode and nothing written for it
ErrorSuppressed ==
  /\ mode = "compiling"
  /\ parser.panic_mode
  /\ panic_errors >= 2
  /\ panic_diags = 1
  /\ Len(cout) >= 2

\* C9: Negate replaces a number n on top of the stack by -n and run() goes
\* on; on any other value run() returns RuntimeError.
NegateNegates ==
  [][(Fetch("Negate") /\ stack_top >= 1 /\ stack_top <= Len(stack)) =>
       IF is("Number", stack[stack_top])
       THEN /\ mode' = "running"
            /\ ip' = ip + 1
            /\ stack_top' = stack_top
            /\ stack'[stack_top] = NumNeg(stack[stack_top])
       ELSE /\ mode' = "idle"
            /\ result' = "RuntimeError"]_vars

\* C10: Add replaces two numbers by their sum and two strings by the left
\* one followed by the right one, and run() goes on; on any other two
\* values run() returns RuntimeError.
AddAddsOrConcatenates ==
  [][(Fetch("Add") /\ stack_top >= 2 /\ stack_top <= Len(stack)) =>
       IF is("Number", stack[stack_top - 1]) /\ is("Number", stack[stack_top])
       THEN /\ mode' = "running"
            /\ stack_top' = stack_top - 1
            /\ stack'[stack_top - 1] = NumAdd(stack[stack_top - 1], stack[stack_top])
       ELSE IF is("String", stack[stack_top - 1]) /\ is("String", stack[stack_top])
       THEN /\ mode' = "running"
            /\ stack_top' = stack_top - 1
            /\ stack'[stack_top - 1] =
                 MakeString(stack[stack_top - 1].s \o stack[stack_top].s)
       ELSE /\ mode' = "idle"
            /\ result' = "RuntimeError"]_vars

\* C11: Subtract, Mutliply, Divide, Greater and Less replace two numbers by
\* the result for (left, right) and run() goes on; when an operand is no
\* number run() returns RuntimeError.
NumericOperatorsChecked ==
  [][\A op \in {<<"Subtract", "minus">>, <<"Mutliply", "multiplies">>,
                <<"Divide", "divides">>, <<"Greater", "greater">>,
                <<"Less", "less">>} :
       (Fetch(op[1]) /\ stack_top >= 2 /\ stack_top <= Len(stack)) =>
         IF is("Number", stack[stack_top - 1]) /\ is("Number", stack[stack_top])
         THEN /\ mode' = "running"
              /\ stack_top' = stack_top - 1
              /\ stack'[stack_top - 1] =
                   Apply(op[2], stack[stack_top - 1], stack[stack_top])
         ELSE /\ mode' = "idle"
              /\ result' = "RuntimeError"]_vars

\* C12: when interpret() begins to run a chunk stack_top is 0, whatever the
\* interpret() calls before it left on the stack.
StackEmptyAtStart ==
  [][(InterpretCompiled /\ mode' = "running") => stack_top' = 0]_vars

\* C13: when interpret() has returned RuntimeError stack_top is 0.
StackResetOnRuntimeError ==
  (mode = "idle" /\ result = "RuntimeError") => stack_top = 0

\* the name a global instruction at ip refers to is bound / is not bound
GlobalAt(name, bound) ==
  /\ Fetch(name)
  /\ is_name(ConstantAt(Code(ip + 1)))
  /\ (ConstantAt(Code(ip + 1)).v.s \in DOMAIN globals) = bound

\* C14: GetGlobal and SetGlobal of a name without a binding make run()
\* return RuntimeError and leave globals as it is; SetGlobal of a bound name
\* stores peek(0) under it and leaves the stack as it is.
GlobalAccessChecked ==
  [][/\ (GlobalAt("GetGlobal", FALSE) \/ GlobalAt("SetGlobal", FALSE)) =>
          /\ mode' = "idle"
          /\ result' = "RuntimeError"
          /\ globals' = globals
     /\ (GlobalAt("SetGlobal", TRUE) /\ stack_top >= 1 /\ stack_top <= Len(stack)) =>
          /\ mode' = "running"
          /\ DOMAIN globals' = DOMAIN globals
          /\ \A n \in DOMAIN globals :
               globals'[n] = IF n = ConstantAt(Code(ip + 1)).v.s
                             THEN stack[stack_top] ELSE globals[n]
          /\ stack_top' = stack_top
          /\ stack' = stack]_vars

\* SetGlobal has stored 2 under the bound name x, and the SetGlobal of the
\* unbound name y after it has made run() return RuntimeError
GlobalAssignedThenRefused ==
  /\ mode = "idle"
  /\ result = "RuntimeError"
  /\ ip >= 2
  /\ (ip - 2) \in Starts(chunk)
  /\ Code(ip - 2) = Op("SetGlobal")
  /\ DOMAIN globals = {"x"}
  /\ globals["x"] = MakeNumber(2, 1)

\* interpret() has returned from the single source `source`
Finished(source) ==
  /\ mode = "idle"
  /\ result # "none"
  /\ pending = <<>>
  /\ scanner.source = source

\* C15: the value of a variable declared without an initializer is no
\* boolean, number or string; it is printed as nil, and Equal finds it
\* different from the number 0.
UninitialisedIsNil ==
  /\ [][(Fetch("Nil") /\ stack_top < stack_size) =>
          stack'[stack_top + 1].t \notin {"Boolean", "Number", "String"}]_vars
  /\ [](Finished("var b; print b;") => printed = <<"nil">>)
  /\ [](Finished("var b; if (b == 0) print 1; else print 2;") => printed = <<"2">>)

\* C16: an instruction that pushes onto a stack of 256 values makes run()
\* return RuntimeError; stack_top never exceeds 256 and no slot beyond the
\* 256 of the array is written.
StackOverflowIsRuntimeError ==
  /\ [][(stack_top = stack_size
          /\ \E name \in {"Constant", "Nil", "True", "False", "GetLocal", "GetGlobal"} :
               Fetch(name)) =>
          (mode' = "idle" /\ result' = "RuntimeError")]_vars
  /\ [](stack_top <= stack_size /\ Len(stack) <= stack_size)

\* C17, as stated: while compile() runs, the constant pool of the chunk it
\* compiles never holds more than 256 entries.
ConstantPoolNeverOverfull ==
  mode = "compiling" => Len(compiling_chunk.constants) <= ByteMax + 1

\* C17, amended: a chunk that compile() returns holds at most 256 constants;
\* once the pool of the chunk being compiled holds more, an error has been
\* reported and compile() returns no chunk.
ConstantPoolCapped ==
  /\ (mode \in {"compiling", "compiled"}
        /\ Len(compiling_chunk.constants) > ByteMax + 1) =>
       (parser.had_error /\ cout # <<>>)
  /\ (mode = "compiled" /\ Len(compiling_chunk.constants) > ByteMax + 1) =>
       compiled = NoChunk
  /\ (mode = "compiled" /\ compiled.has_value) =>
       Len(compiled.chunk.constants) <= ByteMax + 1

\* compile() has returned no chunk after the constant of index 256 was
\* added and reported
ConstantRejected ==
  /\ mode = "compiled"
  /\ Len(compiling_chunk.constants) > ByteMax + 1
  /\ cout[1] = " Error at '1': Too many constants in one chunk."
  /\ compiled = NoChunk

\* the token type of each keyword
KeywordType ==
  [k \in Spellings |->
     CASE k = "and" -> "AND"       [] k = "class" -> "CLASS"
       [] k = "else" -> "ELSE"     [] k = "false" -> "FALSE"
       [] k = "for" -> "FOR"       [] k = "fun" -> "FUN"
       [] k = "if" -> "IF"         [] k = "nil" -> "NIL"
       [] k = "or" -> "OR"         [] k = "print" -> "PRINT"
       [] k = "return" -> "RETURN" [] k = "super" -> "SUPER"
       [] k = "this" -> "THIS"     [] k = "true" -> "TRUE"
       [] k = "var" -> "VAR"       [] k = "while" -> "WHILE"]

\* C18: the token scan_token makes of an identifier-shaped lexeme has the
\* type of a keyword exactly when the lexeme is that keyword's spelling,
\* and is an IDENTIFIER otherwise.
KeywordsExact ==
  parser.current.type \in {KeywordType[k] : k \in Spellings} \cup {"IDENTIFIER"} =>
    parser.current.type =
      IF parser.current.lexme \in Spellings
      THEN KeywordType[parser.current.lexme]
      ELSE "IDENTIFIER"

\* C19: a local of an inner block that has the name of a variable of an
\* outer scope is what the name reads inside the block, and the outer
\* variable, unchanged, is what it reads after the block: each of these
\* sources prints 2 and then 1.
InnerLocalShadows ==
  \A source \in {"var a = 1; { var a = 2; print a; } print a;",
                  "var x = 1; { var x = 2; print x; } print x;",
                  "{ var x = 1; { var x = 2; print x; } print x; }"} :
    Finished(source) => (result = "Ok" /\ printed = <<"2", "1">>)

\* C20: in the code of `while (E) S` the Loop goes back to the first byte of
\* the code of E and the JumpIfFalse after E goes to the Pop behind the
\* Loop; run() enters the code of S when E has left a truthy value and
\* leaves the loop when it has left a falsey one; stack_top is the same
\* each time run() comes back to E and when it has left the loop; counting
\* x from 0 while x < 3 prints 0, 1 and 2 and returns Ok.
WhileLoopsBack ==
  /\ [](( mode = "compiled" /\ compiled.has_value) =>
         \A w \in while_stmts :
           /\ compiled.chunk.data[w.exit + 1] = Op("JumpIfFalse")
           /\ compiled.chunk.data[w.exit + 4] = Op("Pop")
           /\ compiled.chunk.data[w.loop + 1] = Op("Loop")
           /\ compiled.chunk.data[w.loop + 4] = Op("Pop")
           /\ w.end = w.loop + 4
           /\ JumpTarget(compiled.chunk, w.loop) = w.start
           /\ JumpTarget(compiled.chunk, w.exit) = w.loop + 3)
  /\ [](mode = "running" =>
         \A w \in while_stmts :
           (ip = w.end /\ w.start \in DOMAIN stmt_entry) =>
             stack_top = stmt_entry[w.start])
  /\ [][mode = "running" =>
          \A w \in while_stmts :
            /\ (ip = w.exit /\ stack_top >= 1 /\ stack_top <= Len(stack)) =>
                 /\ mode' = "running"
                 /\ ip' = IF is_falsey(stack[stack_top])
                           THEN w.loop + 3 ELSE w.exit + 3
            /\ ip = w.loop =>
                 /\ mode' = "running"
                 /\ ip' = w.start
                 /\ stack_top' = stmt_entry[w.start]]_vars
  /\ [](Finished("var x = 0; while (x < 3) { print x; x = x + 1; }") =>
         (result = "Ok" /\ printed = <<"0", "1", "2">>))

\* C30: a Jump, a JumpIfFalse on a falsey value and a Loop move ip by the
\* 16-bit value hi * 256 + lo of their two operand bytes, from the byte
\* after the operand.
ReadShortBigEndian ==
  [][/\ (Fetch("Jump") \/ Fetch("Loop")) => ip' = JumpTarget(chunk, ip)
     /\ (Fetch("JumpIfFalse") /\ stack_top >= 1 /\ stack_top <= Len(stack)) =>
          ip' = IF is_falsey(stack[stack_top])
                THEN JumpTarget(chunk, ip) ELSE ip + 3]_vars

\* the token types the parse-rule list gives an infix rule at a precedence
OperatorsAt(precedence) ==
  CASE precedence = "OR" -> {"OR"}
    [] precedence = "AND" -> {"AND"}
    [] precedence = "EQUALITY" -> {"EQUAL_EQUAL", "BANG_EQUAL"}
    [] precedence = "COMPARISON" -> {"LESS", "LESS_EQUAL", "GREATER", "GREATER_EQUAL"}
    [] precedence = "TERM" -> {"MINUS", "PLUS"}
    [] precedence = "FACTOR" -> {"SLASH", "STAR"}
    [] OTHER -> {}

\* the rule the parse-rule list gives a token type
ListedRule(type) ==
  LET prefix == CASE type = "LEFT_PAREN" -> "grouping"
                  [] type \in {"MINUS", "BANG"} -> "unary"
                  [] type = "IDENTIFIER" -> "variable"
                  [] type = "STRING" -> "string"
                  [] type = "NUMBER" -> "number"
                  [] type \in {"TRUE", "FALSE", "NIL"} -> "literal"
                  [] OTHER -> ""
      infix == CASE type = "AND" -> "and_"
                 [] type = "OR" -> "or_"
                 [] type \in OperatorsAt("EQUALITY") \cup OperatorsAt("COMPARISON")
                      \cup OperatorsAt("TERM") \cup OperatorsAt("FACTOR") -> "binary"
                 [] OTHER -> ""
      level == IF \E k \in 1..Len(Precedence) : type \in OperatorsAt(Precedence[k])
               THEN CHOOSE k \in 1..Len(Precedence) : type \in OperatorsAt(Precedence[k])
               ELSE 1
  IN Rule(prefix, infix, Precedence[level])

\* C22: the rule of every token the parser looks at is the listed one: the
\* four comparison tokens have infix binary at COMPARISON, `==` and `!=`
\* infix binary at EQUALITY, and a token the list does not name (`=` among
\* them) has no prefix rule, no infix rule and precedence NONE.
RulesAsListed ==
  \A k \in 1..Len(TokenType) :
    parser.current.type = TokenType[k] =>
      get_rule(TokenType[k]) = ListedRule(TokenType[k])

\* C21: binary operators are compiled with precedence and left
\* associativity: `8 op1 4 op2 2` compiles, and a higher-precedence op2 is
\* emitted before op1, after all three operands; otherwise op1 is emitted
\* between the second and the third operand and op2 last.  `1 + 2 * 3`
\* prints 7, `8 - 4 - 2` prints 2 and `8 / 4 / 2` prints 1.
Precedes(op1, op2) ==
  \E k \in 1..Len(Precedence), l \in 1..Len(Precedence) :
    /\ k < l
    /\ op1.type \in OperatorsAt(Precedence[k])
    /\ op2.type \in OperatorsAt(Precedence[l])

ThreeOperandCode(op1, op2) ==
  LET operand(k) == <<Op("Constant"), k>>
      code(op) == [k \in 1..Len(op.code) |-> Op(op.code[k])]
  IN IF Precedes(op1, op2)
     THEN operand(0) \o operand(1) \o operand(2) \o code(op2) \o code(op1)
     ELSE operand(0) \o operand(1) \o code(op1) \o operand(2) \o code(op2)

PrecedenceAndAssociativity ==
  /\ \A op1, op2 \in BinaryOperators :
       Finished(ThreeOperands(op1, op2)) =>
         /\ result # "CompileError"
         /\ chunk.data = ThreeOperandCode(op1, op2) \o <<Op("Print"), Op("Return")>>
  /\ Finished("print 1 + 2 * 3;") => printed = <<"7">>
  /\ Finished("print 8 - 4 - 2;") => printed = <<"2">>
  /\ Finished("print 8 / 4 / 2;") => printed = <<"1">>
  /\ Finished("print 8 - 4 * 2;") => printed = <<"0">>

\* C27: for `a or b` the compiler emits, after code(a), JumpIfFalse E,
\* Jump X and, at the target of E, the single byte Pop, nothing else before
\* code(b); after code(b) it patches X to the size of the chunk and changes
\* no other byte.  `false or 1;` compiles to False, JumpIfFalse 3, Jump 3,
\* Pop, Constant 0, Pop, Return.
OrCode ==
  /\ [][(Or /\ Top.pc = "or_") =>
          compiling_chunk'.data = compiling_chunk.data \o
            <<Op("JumpIfFalse"), 0, 3, Op("Jump"), ByteMax, ByteMax, Op("Pop")>>]_vars
  /\ [][(Or /\ Top.pc = "or_end" /\ ChunkSize(compiling_chunk) - Top.i - 2 <= JumpMax) =>
          /\ Len(compiling_chunk'.data) = Len(compiling_chunk.data)
          /\ JumpTarget(compiling_chunk', Top.i - 1) = ChunkSize(compiling_chunk)
          /\ \A k \in 1..Len(compiling_chunk.data) :
               k \notin {Top.i + 1, Top.i + 2} =>
                 compiling_chunk'.data[k] = compiling_chunk.data[k]]_vars
  /\ [](Finished("false or 1;") =>
          chunk.data = <<Op("False"), Op("JumpIfFalse"), 0, 3, Op("Jump"), 0, 3,
                         Op("Pop"), Op("Constant"), 0, Op("Pop"), Op("Return")>>)

\* C23: while a compiled chunk runs, the byte fetched as an opcode is the
\* first byte of an instruction of the chunk and one of the defined
\* opcodes, and an instruction that does not jump reads its operand bytes
\* and nothing more, so that the next fetch is at the next instruction.
FetchesAreOpcodes ==
  /\ []((mode = "running" /\ ip < Len(chunk.data)) =>
          /\ ip \in Starts(chunk)
          /\ Code(ip) < Len(OpCode))
  /\ [][(/\ mode = "running" /\ mode' = "running"
          /\ ip < Len(chunk.data)
          /\ Code(ip) \notin {Op("Jump"), Op("JumpIfFalse"), Op("Loop")}) =>
            ip' = ip + InstructionSize(Code(ip))]_vars

\* C24: nil, false and the number 0 are falsey and every other value is
\* truthy (non-zero numbers, true, every string, the empty one included):
\* Not pushes true for exactly the falsey values, and JumpIfFalse leaves
\* the stack as it is and adds its offset to ip exactly when the value on
\* top is falsey.
Falsey(value) ==
  \/ value.t = "Number" /\ value.n = 0 /\ value.d # 0
  \/ value.t = "Boolean" /\ ~value.b

Truthiness ==
  /\ [][(Fetch("JumpIfFalse") /\ stack_top >= 1 /\ stack_top <= Len(stack)) =>
          /\ ip' = IF Falsey(stack[stack_top]) THEN JumpTarget(chunk, ip) ELSE ip + 3
          /\ stack' = stack
          /\ stack_top' = stack_top]_vars
  /\ [][(Fetch("Not") /\ stack_top >= 1 /\ stack_top <= Len(stack)) =>
          /\ stack_top' = stack_top
          /\ stack'[stack_top] = MakeBoolean(Falsey(stack[stack_top]))]_vars
  /\ [](\A c \in Conditions :
          Finished(IfElse(c.text)) =>
            printed = <<IF c.truthy THEN "1" ELSE "2">>)

\* C25: globals persist for the lifetime of the Vm: no step removes a
\* binding; only DefineGlobal and SetGlobal change globals, so a binding
\* has the same value at the start of every later interpret call;
\* DefineGlobal of a name that is already bound stores the popped value
\* under it.
GlobalsPersist ==
  /\ [][/\ DOMAIN globals \subseteq DOMAIN globals'
        /\ ~(Fetch("DefineGlobal") \/ Fetch("SetGlobal")) => globals' = globals
        /\ \A name \in DOMAIN globals :
             (globals'[name] # globals[name]) =>
               (GlobalAt("DefineGlobal", TRUE) \/ GlobalAt("SetGlobal", TRUE))
        /\ (GlobalAt("DefineGlobal", TRUE) /\ stack_top >= 1) =>
             globals' = [globals EXCEPT ![ConstantAt(Code(ip + 1)).v.s] =
                                          stack[stack_top]]]_vars
  /\ [](Finished("var x = 3; print x; print y;") => printed = <<"3", "2">>)
  /\ [](Finished("print x;") => printed = <<"1">>)

GlobalRedefined ==
  /\ Finished("var x = 3; print x; print y;")
  /\ printed = <<"3", "2">>
  /\ globals = [n \in {"x", "y"} |-> IF n = "x" THEN MakeNumber(3, 1) ELSE MakeNumber(2, 1)]

\* the newline characters among the first n characters of src
Newlines(src, n) == Cardinality({k \in 0..(n - 1) : CharAt(src, k) = "\n"})

\* C26: token lines are 1-based: the token made from source text that the
\* scanner has just handed to the parser carries line = 1 + the number of newline characters before
\* the end of its lexeme, so a token on the first line has line 1.
TokenLinesOneBased ==
  (mode = "compiling" /\ parser.current.type \notin {"ERROR", "Eof"}) =>
    parser.current.line = 1 + Newlines(scanner.source, scanner.current)

\* C28: for `a and b` the compiler emits, after code(a), JumpIfFalse J and
\* Pop, then code(b), and patches J to the byte after code(b), changing no
\* other byte.  Executed, the expression leaves one value: the value of a
\* when a is falsey, otherwise the value of b; `if (true and false) print
\* "T"; else print "F";` prints F.
AndCode ==
  /\ [][(And /\ Top.pc = "and_") =>
          compiling_chunk'.data = compiling_chunk.data \o
            <<Op("JumpIfFalse"), ByteMax, ByteMax, Op("Pop")>>]_vars
  /\ [][(And /\ Top.pc = "and_end" /\ ChunkSize(compiling_chunk) - Top.i - 2 <= JumpMax) =>
          /\ Len(compiling_chunk'.data) = Len(compiling_chunk.data)
          /\ JumpTarget(compiling_chunk', Top.i - 1) = ChunkSize(compiling_chunk)
          /\ \A k \in 1..Len(compiling_chunk.data) :
               k \notin {Top.i + 1, Top.i + 2} =>
                 compiling_chunk'.data[k] = compiling_chunk.data[k]]_vars
  /\ [](\A a, b \in Operands :
          Finished(PrintAnd(a.text, b.text)) =>
            /\ result = "Ok"
            /\ stack_top = 0
            /\ printed = <<IF a.truthy THEN b.shown ELSE a.shown>>)
  /\ [](\A a \in Operands :
          scanner.source = PrintAnd(a.text, LongSum) => result # "undefined")
  /\ [](\A a \in Operands :
          Finished(PrintAnd(a.text, LongSum)) =>
            /\ result = "Ok"
            /\ stack_top = 0
            /\ printed = <<IF a.truthy THEN FormatValue(MakeNumber(LongBody + 2, 1))
                            ELSE a.shown>>)
  /\ [](Finished("if (true and false) print \"T\"; else print \"F\";") =>
          printed = <<"F">>)

\* C29: `if (E) S1 else S2` runs S1 and not S2 when E is truthy, S2 and not
\* S1 when E is falsey, and the stack is as high after the statement as
\* before it (the condition is popped once on either path); an if without
\* else whose condition is falsey runs nothing of S1.
IfRunsOneBranch ==
  /\ \A c \in Conditions :
       Finished(IfElse(c.text)) =>
         /\ result = "Ok"
         /\ stack_top = 0
         /\ printed = <<IF c.truthy THEN "1" ELSE "2">>
  /\ Finished(LongIf) =>
       /\ result = "Ok"
       /\ stack_top = 0
       /\ printed = <<"2">>

\* the opcodes an operator of binary() is mapped to, as bytes
OperatorCode(op) == [k \in 1..Len(op.code) |-> Op(op.code[k])]

\* C31: binary parses the right operand one precedence level above the
\* operator's own and then emits exactly the opcodes the operator is mapped
\* to: `==` Equal; `!=` Equal, Not; `>` Greater; `>=` Less, Not; `<` Less;
\* `<=` Greater, Not; `+` Add; `-` Subtract; `*` Mutliply; `/` Divide.
BinaryEmitsMapped ==
  /\ [][(Binary /\ Top.pc = "binary") =>
          /\ compiling_chunk' = compiling_chunk
          /\ frames'[Len(frames')] =
               ParsePrec(ListedRule(parser.previous.type).precedence + 1)]_vars
  /\ [][(Binary /\ Top.pc = "binary_end") =>
          \E op \in BinaryOperators :
            /\ op.type = Top.t
            /\ compiling_chunk'.data = compiling_chunk.data \o OperatorCode(op)]_vars
  /\ [](\A op \in BinaryOperators :
          binary_emit(S, op.type).chunk.data = compiling_chunk.data \o OperatorCode(op))

TwoOpcodesEmitted ==
  /\ mode = "compiling"
  /\ frames # <<>>
  /\ parser.previous.type = "NUMBER"
  /\ Len(compiling_chunk.data) >= 6
  /\ SubSeq(compiling_chunk.data, Len(compiling_chunk.data) - 1,
            Len(compiling_chunk.data)) = <<Op("Less"), Op("Not")>>
  /\ scanner.source = ThreeOperands([text |-> ">=", type |-> "GREATER_EQUAL",
                                     code |-> <<"Less", "Not">>],
                                    [text |-> "+", type |-> "PLUS", code |-> <<"Add">>])

\* n times the opcode Pop
Pops(n) == [k \in 1..n |-> Op("Pop")]

\* the step that enters a block, the step that leaves it
BlockEntry == Statement /\ Top.pc = "statement" /\ check(S, "LEFT_BRACE")

BlockExit == Statement /\ Top.pc = "statement_end_scope"

\* on entry scope_depth grows by one and nothing else changes
BlockEnters ==
  /\ current_state'.scope_depth = current_state.scope_depth + 1
  /\ current_state'.locals = current_state.locals
  /\ compiling_chunk' = compiling_chunk

\* on exit scope_depth is again what it was on entry
BlockLeaves ==
  /\ current_state'.scope_depth = current_state.scope_depth - 1
  /\ current_state'.scope_depth = Top.j

\* on exit local_count is again what it was on entry, and one Pop has been
\* emitted for every local above the count on entry
BlockRestores ==
  /\ local_count(current_state') = Top.i
  /\ local_count(current_state) >= Top.i
  /\ current_state'.locals = SubSeq(current_state.locals, 1, Top.i)
  /\ compiling_chunk'.data = compiling_chunk.data \o
       Pops(local_count(current_state) - Top.i)

RECURSIVE Deeper(_, _, _)
Deeper(st, n, depth) ==
  IF n > 0 /\ (st.locals[n].depth = -1 \/ st.locals[n].depth > depth)
  THEN 1 + Deeper(st, n - 1, depth)
  ELSE 0

\* on exit one Pop is emitted for every local at the top whose recorded
\* depth exceeds the new scope_depth, and these locals are dropped
BlockPops ==
  LET n == Deeper(current_state, local_count(current_state), Top.j)
  IN /\ current_state'.locals =
          SubSeq(current_state.locals, 1, local_count(current_state) - n)
     /\ compiling_chunk'.data = compiling_chunk.data \o Pops(n)

LocalDeclared ==
  /\ VarDeclaration
  /\ Top.pc = "var_declaration"
  /\ current_state.scope_depth > 0
  /\ check(S, "IDENTIFIER")

\* a local of the current scope has the name
InSameScope(name) ==
  \E k \in 1..local_count(current_state) :
    /\ current_state.locals[k].token.lexme = name
    /\ current_state.locals[k].depth \in {-1, current_state.scope_depth}

AlreadyDeclared(name) ==
  " Error at '" \o name \o "': Already a variable with this name in this scope."

\* C33: declaring a local whose name is already declared in the same scope
\* reports 'Already a variable with this name in this scope.' and makes
\* compile fail; a local with the name of a local of an enclosing scope, or
\* of a global, is declared without that error.
SameScopeRedeclarationRefused ==
  /\ [][LocalDeclared =>
          IF InSameScope(parser.current.lexme)
          THEN /\ parser'.had_error
               /\ ~parser.panic_mode =>
                    /\ Len(cout') > Len(cout)
                    /\ cout'[Len(cout) + 1] = AlreadyDeclared(parser.current.lexme)
          ELSE Len(cout') > Len(cout) =>
                 cout'[Len(cout) + 1] # AlreadyDeclared(parser.current.lexme)]_vars
  /\ [](\A source \in {"{ var x = 1; var x = 2; }",
                        "{ var x = 1; var y = 2; { var y = 3; } var x = 4; }"} :
          Finished(source) =>
            /\ result = "CompileError"
            /\ cout = <<AlreadyDeclared("x")>>)
  /\ [](\A source \in {"var x = 1; { var x = 2; print x; } print x;",
                        "{ var x = 1; { var x = 2; print x; } print x; }",
                        "{ var x = 1; { var y = 2; print x; } }"} :
          (mode = "compiled" /\ scanner.source = source) =>
            /\ compiled.has_value
            /\ cout = <<>>)

RedeclarationRefused ==
  /\ Finished("{ var x = 1; var y = 2; { var y = 3; } var x = 4; }")
  /\ result = "CompileError"
  /\ cout = <<AlreadyDeclared("x")>>

\* the name just parsed is that of the local being declared, whose
\* initializer is being compiled (its depth is still -1)
InOwnInitializer ==
  /\ local_count(current_state) > 0
  /\ current_state.locals[local_count(current_state)].depth = -1
  /\ current_state.locals[local_count(current_state)].token.lexme =
       parser.previous.lexme

OwnInitializer(name) ==
  " Error at '" \o name \o "': Can't read local variable in its own initializer."

\* C34: reading a local in its own initializer reports 'Can't read local
\* variable in its own initializer.' and compile returns no chunk; a
\* GetLocal is emitted only for a local of that name whose declaration is
\* complete (its depth is no longer -1).
OwnInitializerRefused ==
  /\ [][(Variable /\ Top.pc = "variable") =>
          IF InOwnInitializer
          THEN /\ parser'.had_error
               /\ ~parser.panic_mode =>
                    /\ Len(cout') > Len(cout)
                    /\ cout'[Len(cout) + 1] = OwnInitializer(parser.previous.lexme)
          ELSE /\ cout' = cout
               /\ (/\ Len(compiling_chunk'.data) = Len(compiling_chunk.data) + 2
                   /\ compiling_chunk'.data[Len(compiling_chunk.data) + 1] = Op("GetLocal")) =>
                    LET k == compiling_chunk'.data[Len(compiling_chunk.data) + 2] + 1
                    IN /\ k \in 1..local_count(current_state)
                       /\ current_state.locals[k].depth # -1
                       /\ current_state.locals[k].token.lexme = parser.previous.lexme]_vars
  /\ [](\A source \in {"{ var x = x; }",
                        "{ var x = 1; { var x = x + 1; print x; } }"} :
          /\ (mode = "compiled" /\ scanner.source = source) => ~compiled.has_value
          /\ Finished(source) =>
               /\ result = "CompileError"
               /\ cout = <<OwnInitializer("x")>>)

OwnInitializerRead ==
  /\ Finished("{ var x = 1; { var x = x + 1; print x; } }")
  /\ result = "CompileError"
  /\ cout = <<OwnInitializer("x")>>

TooManyLocals(name) ==
  " Error at '" \o name \o "': Too many local variables in function."

\* C35: the compiler accepts 256 simultaneously declared locals: a local
\* declared while fewer than 256 are declared is added without 'Too many
\* local variables in function.', which is reported only for a 257th; 256
\* nested declarations compile.
LocalsCapacity ==
  /\ [][(LocalDeclared /\ local_count(current_state) < LocalsSize) =>
          /\ local_count(current_state') = local_count(current_state) + 1
          /\ Len(cout') > Len(cout) =>
               cout'[Len(cout) + 1] # TooManyLocals(parser.current.lexme)]_vars
  /\ [][(LocalDeclared /\ local_count(current_state) = LocalsSize) =>
          /\ local_count(current_state') = LocalsSize
          /\ parser'.had_error]_vars
  /\ [](\A n \in {LocalsSize - 1, LocalsSize} :
          (mode = "compiled" /\ scanner.source = NestedLocals(n)) =>
            /\ compiled.has_value
            /\ cout = <<>>)

InvalidTarget == " Error at '=': Invalid assignment target."

\* an expression parsed at assignment precedence is complete and `=` follows
AssignmentToExpression ==
  /\ ParsePrecedence
  /\ Top.pc = "parse_precedence_infix"
  /\ Top.i = Prec("ASSIGNMENT")
  /\ check(S, "EQUAL")

\* a variable has been parsed at assignment precedence and `=` follows
AssignmentToVariable ==
  /\ Variable
  /\ Top.pc = "variable"
  /\ Len(frames) > 1
  /\ frames[Len(frames) - 1].pc = "parse_precedence_infix"
  /\ frames[Len(frames) - 1].i = Prec("ASSIGNMENT")
  /\ check(S, "EQUAL")

\* C36: an `=` after an expression that is no plain variable at assignment
\* precedence reports 'Invalid assignment target.' and compile fails; after
\* a plain variable the `=` is consumed without error, the right-hand side
\* is compiled and then the set form, Setlocal or SetGlobal, is emitted.
AssignmentTargetsChecked ==
  /\ [][AssignmentToExpression =>
          /\ parser'.had_error
          /\ ~parser.panic_mode => cout' = Append(cout, InvalidTarget)]_vars
  /\ [][AssignmentToVariable =>
          /\ cout' = cout
          /\ parser'.had_error = parser.had_error
          /\ parser'.previous.type = "EQUAL"
          /\ compiling_chunk'.data = compiling_chunk.data
          /\ Len(frames') = Len(frames) + 1
          /\ frames'[Len(frames')] = Expression
          /\ frames'[Len(frames)].pc = "named_variable_end"
          /\ frames'[Len(frames)].i \in {Op("Setlocal"), Op("SetGlobal")}]_vars
  /\ [][(Variable /\ Top.pc = "named_variable_end") =>
          compiling_chunk'.data = compiling_chunk.data \o <<Top.i, Top.j>>]_vars
  /\ [](\A source \in {"1 = 2;", "x + y = b;", "{ var x = 1; x = 2 = 3; }"} :
          /\ (mode = "compiled" /\ scanner.source = source) => ~compiled.has_value
          /\ Finished(source) => cout = <<InvalidTarget>>)
  /\ []((mode = "compiled" /\ scanner.source = "x = 1;") =>
          /\ compiled.has_value
          /\ compiled.chunk.data = <<Op("Constant"), 1, Op("SetGlobal"), 0,
                                     Op("Pop"), Op("Return")>>)
  /\ []((mode = "compiled" /\ scanner.source = "{ var x = 1; x = x + 1; print x; }") =>
          /\ compiled.has_value
          /\ SubSeq(compiled.chunk.data, 3, 11) =
               <<Op("GetLocal"), 0, Op("Constant"), 1, Op("Add"),
                 Op("Setlocal"), 0, Op("Pop"), Op("GetLocal")>>)

InvalidTargetReported ==
  /\ Finished("x + y = b;")
  /\ result = "CompileError"
  /\ cout = <<InvalidTarget>>

\* C37: every chunk compile returns has the opcode Return as its last
\* byte, and the VM, on executing Return, stops at once with Ok and leaves
\* the stack and the globals as they are.
ReturnEndsChunkAndRun ==
  /\ []((mode = "compiled" /\ compiled.has_value) =>
          /\ compiled.chunk.data # <<>>
          /\ compiled.chunk.data[Len(compiled.chunk.data)] = Op("Return"))
  /\ [][Fetch("Return") =>
          /\ mode' = "idle"
          /\ result' = "Ok"
          /\ stack' = stack
          /\ stack_top' = stack_top
          /\ globals' = globals
          /\ printed' = printed]_vars

ReturnedWithStackAndGlobals ==
  /\ Finished("print x;")
  /\ result = "Ok"
  /\ chunk.data[Len(chunk.data)] = Op("Return")
  /\ stack_top = 1
  /\ DOMAIN globals = {"x"}

\* the token scanned next is Eof and the scanner stays where it is
EofAgain ==
  LET r == scan_token(scanner.source, [start |-> scanner.start,
                                       current |-> scanner.current,
                                       line |-> scanner.line])
  IN /\ r.tok.type = "Eof"
     /\ r.sc.current = scanner.current

\* C38: compile terminates on every source: declaration is only called
\* while the current token is not Eof and the current token on its return
\* begins later in the source than the one on its call, the scanner never
\* moves past the end of the source, once it has returned Eof it returns Eof
\* again without moving, and no compile takes steps for ever.
CompileTerminates ==
  /\ [](InFrame({"declaration"}) => parser.current.type # "Eof")
  /\ [][(InFrame({"declaration_end"}) /\ Declaration) =>
          /\ scanner.start > Top.i
          /\ scanner'.start >= scanner.start]_vars
  /\ [](mode \in {"compiling", "compiled"} =>
          /\ scanner.start <= scanner.current
          /\ scanner.current <= Len(scanner.source)
          /\ (parser.current.type = "Eof" => EofAgain))
  /\ [](mode = "compiling" => frames # <<>>)
  /\ ([]<>(mode # "compiling") \/ <>[][FALSE]_vars)

\* a compile that skipped ERROR tokens and synchronized has returned
CompiledAfterErrors ==
  /\ mode = "compiled"
  /\ scanner.source = "print 1 +; print (2;\nvar 3; @ print 4;"
  /\ parser.current.type = "Eof"
  /\ scanner.current = Len(scanner.source)
  /\ \E i \in DOMAIN cout : cout[i] = " Error at ';': Unexpected character."

\* the values the instruction that begins with `byte` pops, or reads with
\* peek(0)
Removes(byte) ==
  IF byte \in {Op("Equal"), Op("Add"), Op("Subtract"), Op("Mutliply"),
               Op("Divide"), Op("Greater"), Op("Less")} THEN 2
  ELSE IF byte \in {Op("Pop"), Op("Print"), Op("DefineGlobal"), Op("Not"),
                    Op("Negate"), Op("JumpIfFalse"), Op("Setlocal"),
                    Op("SetGlobal")} THEN 1
  ELSE 0

\* C39: while the VM runs a compiled program from an empty stack, every
\* instruction that pops values or reads peek(0) is executed with at least
\* as many values on the stack as it removes or reads.
StackNeverUnderflows ==
  (mode = "running" /\ result = "none" /\ ip < Len(chunk.data)) =>
    stack_top >= Removes(Code(ip))
====
